---- MODULE Spec2Model ----
(***************************************************************************)
(* A model of the smoothie monitor-arrangement engine: the MonitorEditor   *)
(* component (editable monitor set, canvas transform, drag state machine,  *)
(* presets, apply-to-system, save-to-profile) and the useSystemDetection   *)
(* hook (capture session).                                                 *)
(*                                                                         *)
(* JavaScript numbers are IEEE-754 doubles.  Positions, scales and offsets *)
(* are modelled as doubles with a 53-bit significand and round-to-nearest, *)
(* ties-to-even arithmetic (FAdd, FSub, FMul, FDiv), built on naturals     *)
(* held as little-endian limb sequences.  NaN, infinities, signed zero and *)
(* subnormals are not modelled: no input of the model produces them.       *)
(***************************************************************************)
EXTENDS Integers, Sequences, FiniteSets, TLC

(***************************************************************************)
(* Naturals of arbitrary size: little-endian sequences of limbs below      *)
(* LimbBase, without high zero limbs; <<>> is zero.                        *)
(***************************************************************************)
LimbBits == 15
LimbBase == 2^15

RECURSIVE Pow2(_)
Pow2(k) == IF k = 0 THEN 1 ELSE 2 * Pow2(k - 1)

RECURSIVE BNorm(_)
BNorm(a) ==
    IF a = <<>> THEN <<>>
    ELSE IF a[Len(a)] = 0 THEN BNorm(SubSeq(a, 1, Len(a) - 1))
    ELSE a

RECURSIVE BFromInt(_)
BFromInt(n) == IF n = 0 THEN <<>> ELSE <<n % LimbBase>> \o BFromInt(n \div LimbBase)

RECURSIVE BToInt(_)
BToInt(a) == IF a = <<>> THEN 0 ELSE Head(a) + LimbBase * BToInt(Tail(a))

RECURSIVE BAddC(_, _, _)
BAddC(a, b, c) ==
    IF a = <<>> /\ b = <<>> THEN (IF c = 0 THEN <<>> ELSE <<c>>)
    ELSE LET x == (IF a = <<>> THEN 0 ELSE Head(a))
                  + (IF b = <<>> THEN 0 ELSE Head(b)) + c
         IN  <<x % LimbBase>>
             \o BAddC(IF a = <<>> THEN <<>> ELSE Tail(a),
                      IF b = <<>> THEN <<>> ELSE Tail(b), x \div LimbBase)

BAdd(a, b) == BAddC(a, b, 0)

\* a - b for a >= b, before normalisation.
RECURSIVE BSubC(_, _, _)
BSubC(a, b, c) ==
    IF a = <<>> THEN <<>>
    ELSE LET x == Head(a) - (IF b = <<>> THEN 0 ELSE Head(b)) - c
         IN  <<IF x < 0 THEN x + LimbBase ELSE x>>
             \o BSubC(Tail(a), IF b = <<>> THEN <<>> ELSE Tail(b),
                      IF x < 0 THEN 1 ELSE 0)

BSub(a, b) == BNorm(BSubC(a, b, 0))

\* -1, 0 or 1 as a < b, a = b, a > b.
RECURSIVE BCmpTop(_, _, _)
BCmpTop(a, b, i) ==
    IF i = 0 THEN 0
    ELSE IF a[i] < b[i] THEN -1
    ELSE IF a[i] > b[i] THEN 1
    ELSE BCmpTop(a, b, i - 1)

BCmp(a, b) ==
    IF Len(a) < Len(b) THEN -1
    ELSE IF Len(a) > Len(b) THEN 1
    ELSE BCmpTop(a, b, Len(a))

\* a * k for 0 <= k < LimbBase.
RECURSIVE BMulSmallC(_, _, _)
BMulSmallC(a, k, c) ==
    IF a = <<>> THEN (IF c = 0 THEN <<>> ELSE <<c>>)
    ELSE LET x == Head(a) * k + c
         IN  <<x % LimbBase>> \o BMulSmallC(Tail(a), k, x \div LimbBase)

BMulSmall(a, k) == IF k = 0 THEN <<>> ELSE BMulSmallC(a, k, 0)

BShiftLimbs(a, n) == IF a = <<>> THEN <<>> ELSE [i \in 1..n |-> 0] \o a

RECURSIVE BMul(_, _)
BMul(a, b) ==
    IF a = <<>> \/ b = <<>> THEN <<>>
    ELSE BAdd(BMulSmall(a, Head(b)), BShiftLimbs(BMul(a, Tail(b)), 1))

\* a * 2^k
BShl(a, k) == BShiftLimbs(BMulSmall(a, Pow2(k % LimbBits)), k \div LimbBits)

\* floor(a / d) for 0 < d <= LimbBase, from the top limb down.
RECURSIVE BDivSmallR(_, _, _, _)
BDivSmallR(a, d, i, r) ==
    IF i = 0 THEN <<>>
    ELSE LET x == r * LimbBase + a[i]
         IN  BDivSmallR(a, d, i - 1, x % d) \o <<x \div d>>

BDivSmall(a, d) == BNorm(BDivSmallR(a, d, Len(a), 0))

\* floor(a / 2^k)
BShr(a, k) ==
    LET n == k \div LimbBits
    IN  IF n >= Len(a) THEN <<>>
        ELSE BDivSmall(SubSeq(a, n + 1, Len(a)), Pow2(k % LimbBits))

RECURSIVE IntBitLen(_)
IntBitLen(n) == IF n = 0 THEN 0 ELSE 1 + IntBitLen(n \div 2)

BBitLen(a) == IF a = <<>> THEN 0 ELSE LimbBits * (Len(a) - 1) + IntBitLen(a[Len(a)])

BIsOdd(a) == a # <<>> /\ Head(a) % 2 = 1

\* One digit of a long division in base LimbBase, for r < d where the top
\* limb of d is at least LimbBase / 2: <<floor(r * LimbBase / d), the
\* remainder>>.  The digit is estimated from below by the top limbs and
\* then raised until the remainder is below d.
RECURSIVE BDigitFix(_, _, _)
BDigitFix(dg, rem, d) ==
    IF BCmp(rem, d) >= 0 THEN BDigitFix(dg + 1, BSub(rem, d), d) ELSE <<dg, rem>>

BDigitTop(r1, n) ==
    (IF Len(r1) > n THEN r1[n + 1] * LimbBase ELSE 0) + (IF Len(r1) >= n THEN r1[n] ELSE 0)

BDigitFrom(r1, d, est) == BDigitFix(est, BSub(r1, BMulSmall(d, est)), d)

BDigitOf(r1, d) == BDigitFrom(r1, d, BDigitTop(r1, Len(d)) \div (d[Len(d)] + 1))

BDigit(r, d) == BDigitOf(BShiftLimbs(r, 1), d)

\* k digits in base LimbBase of the quotient r / d after the point, for
\* r < d, below the digits q: <<q * LimbBase^k + floor(r * LimbBase^k / d),
\* (r * LimbBase^k) mod d>>.
RECURSIVE BLongDiv(_, _, _, _)
RECURSIVE BLongDivStep(_, _, _, _)
BLongDivStep(q, s, d, k) ==
    IF s[1] >= 0 THEN BLongDiv(<<s[1]>> \o q, s[2], d, k - 1) ELSE <<>>

BLongDiv(q, r, d, k) ==
    IF k = 0 THEN <<BNorm(q), r>> ELSE BLongDivStep(q, BDigit(r, d), d, k)

(***************************************************************************)
(* IEEE-754 doubles.  An integer of magnitude below IntLimit is            *)
(* [sg |-> 0, m |-> <<>>, e |-> n] with value n; every other finite double *)
(* is [sg, m, e] with value sg * m * 2^e, sg in {-1, 1} and m of exactly   *)
(* MantBits bits.  The form is canonical: two doubles are equal iff the    *)
(* records are (the sign of zero is not kept).  Arithmetic on two small    *)
(* integers with a small integer result is done on the integers; all else  *)
(* is done on the mantissas and rounded to nearest, ties to even.          *)
(***************************************************************************)
MantBits == 53
IntLimit == 2^24

FZero == [sg |-> 0, m |-> <<>>, e |-> 0]

Abs(n) == IF n < 0 THEN -n ELSE n
Sign(n) == IF n < 0 THEN -1 ELSE IF n = 0 THEN 0 ELSE 1

FSmall(n) == [sg |-> 0, m |-> <<>>, e |-> n]

\* The mantissa form of the double nearest to sg * M * 2^e (ties to even);
\* zero is FZero.
GRoundCarry(sg, q1, e) ==
    IF BBitLen(q1) > MantBits
    THEN [sg |-> sg, m |-> BShr(q1, 1), e |-> e + 1]
    ELSE [sg |-> sg, m |-> q1, e |-> e]

\* c compares the bits cut off with half a unit of the last place kept.
GRoundTie(sg, q, c, e) ==
    GRoundCarry(sg, IF c > 0 \/ (c = 0 /\ BIsOdd(q)) THEN BAdd(q, <<1>>) ELSE q, e)

GRoundCut(sg, M, q, k, e) ==
    GRoundTie(sg, q, BCmp(BSub(M, BShl(q, k)), BShl(<<1>>, k - 1)), e + k)

GRoundLen(sg, M, e, L) ==
    IF L <= MantBits
    THEN [sg |-> sg, m |-> BShl(M, MantBits - L), e |-> e - (MantBits - L)]
    ELSE GRoundCut(sg, M, BShr(M, L - MantBits), L - MantBits, e)

GRound(sg, M, e) ==
    IF M = <<>> \/ sg = 0 THEN FZero ELSE GRoundLen(sg, M, e, BBitLen(M))

\* The canonical form of a mantissa-form double.
CanonInt(r, q) == IF BShl(q, -r.e) = r.m THEN FSmall(r.sg * BToInt(q)) ELSE r

Canon(r) ==
    IF r.sg = 0 THEN FZero
    ELSE IF r.e > -29 \/ r.e < -52 THEN r
    ELSE CanonInt(r, BShr(r.m, -r.e))

\* The mantissa form of a canonical double.
Big(a) ==
    IF a.sg # 0 THEN a
    ELSE GRound(Sign(a.e), BFromInt(Abs(a.e)), 0)

FRound(sg, M, e) == Canon(GRound(sg, M, e))

FromInt(n) == IF Abs(n) < IntLimit THEN FSmall(n) ELSE GRound(Sign(n), BFromInt(Abs(n)), 0)

FNeg(a) == IF a.sg = 0 THEN FSmall(-a.e) ELSE [a EXCEPT !.sg = -a.sg]

GAddCmp(a, b, Ma, Mb, emin, c) ==
    IF c = 0 THEN FZero
    ELSE IF c > 0 THEN GRound(a.sg, BSub(Ma, Mb), emin)
    ELSE GRound(b.sg, BSub(Mb, Ma), emin)

GAddAligned(a, b, Ma, Mb, emin) ==
    IF a.sg = b.sg THEN GRound(a.sg, BAdd(Ma, Mb), emin)
    ELSE GAddCmp(a, b, Ma, Mb, emin, BCmp(Ma, Mb))

GAddAt(a, b, emin) == GAddAligned(a, b, BShl(a.m, a.e - emin), BShl(b.m, b.e - emin), emin)

GAdd(a, b) ==
    IF a.sg = 0 THEN b
    ELSE IF b.sg = 0 THEN a
    ELSE GAddAt(a, b, IF a.e < b.e THEN a.e ELSE b.e)

FAdd(a, b) ==
    IF a.sg = 0 /\ b.sg = 0 /\ Abs(a.e + b.e) < IntLimit THEN FSmall(a.e + b.e)
    ELSE Canon(GAdd(Big(a), Big(b)))

FSub(a, b) == FAdd(a, FNeg(b))

GMul(a, b) ==
    IF a.sg = 0 \/ b.sg = 0 THEN FZero
    ELSE GRound(a.sg * b.sg, BMul(a.m, b.m), a.e + b.e)

FMul(a, b) ==
    IF a.sg = 0 /\ b.sg = 0 /\ Abs(a.e) < LimbBase /\ Abs(b.e) < LimbBase
       /\ Abs(a.e * b.e) < IntLimit
    THEN FSmall(a.e * b.e)
    ELSE Canon(GMul(Big(a), Big(b)))

\* a / b for b # 0: the mantissas are aligned to whole limbs, the quotient
\* (between 1/2 and 2) is taken to 5 limbs after the point, a sticky bit
\* records a remainder, and the whole is rounded.
GDivSticky(sg, qr, e) ==
    GRound(sg, BAdd(BAdd(qr[1], qr[1]), IF qr[2] = <<>> THEN <<>> ELSE <<1>>), e)

GDivGe(a, b, am, bm, ge) ==
    GDivSticky(a.sg * b.sg,
               BLongDiv(IF ge THEN <<1>> ELSE <<>>, IF ge THEN BSub(am, bm) ELSE am, bm, 5),
               a.e - b.e - 5 * LimbBits - 1)

GDivAligned(a, b, am, bm) == GDivGe(a, b, am, bm, BCmp(am, bm) >= 0)

GDiv(a, b) ==
    IF a.sg = 0 THEN FZero
    ELSE GDivAligned(a, b, BShl(a.m, 4 * LimbBits - MantBits),
                     BShl(b.m, 4 * LimbBits - MantBits))

FDiv(a, b) ==
    IF a.sg = 0 /\ b.sg = 0 /\ b.e # 0 /\ Abs(a.e) % Abs(b.e) = 0
    THEN FSmall(Sign(a.e) * Sign(b.e) * (Abs(a.e) \div Abs(b.e)))
    ELSE Canon(GDiv(Big(a), Big(b)))

GMagLt(a, b) == a.e < b.e \/ (a.e = b.e /\ BCmp(a.m, b.m) < 0)

GLt(a, b) ==
    IF a.sg # b.sg THEN a.sg < b.sg
    ELSE IF a.sg = 0 THEN FALSE
    ELSE IF a.sg = 1 THEN GMagLt(a, b)
    ELSE GMagLt(b, a)

FLt(a, b) ==
    IF a.sg = 0 /\ b.sg = 0 THEN a.e < b.e
    ELSE GLt(Big(a), Big(b))

FLe(a, b) == a = b \/ FLt(a, b)

\* Math.min / Math.max of two numbers.
FMin(a, b) == IF FLt(b, a) THEN b ELSE a
FMax(a, b) == IF FLt(a, b) THEN b ELSE a

\* Math.round: the nearest integer, halves rounded towards +Infinity.
MathRoundTie(sg, q, c) ==
    IF sg = 1
    THEN BToInt(q) + (IF c >= 0 THEN 1 ELSE 0)
    ELSE -(BToInt(q) + (IF c > 0 THEN 1 ELSE 0))

MathRoundCut(a, q, k) == MathRoundTie(a.sg, q, BCmp(BSub(a.m, BShl(q, k)), BShl(<<1>>, k - 1)))

MathRound(a) ==
    IF a.sg = 0 THEN a.e
    ELSE IF a.e >= 0 THEN a.sg * BToInt(BShl(a.m, a.e))
    ELSE MathRoundCut(a, BShr(a.m, -a.e), -a.e)

(***************************************************************************)
(* Values.  An optional value (T | null) is <<>> for null and <<v>> for v. *)
(* A string that the code inspects (the apply result, an error message) is *)
(* a sequence of tokens: startsWith(p) looks at the first token,           *)
(* substring(p.length) drops it, includes(t) looks for the token t.        *)
(***************************************************************************)
None == <<>>
Some(v) == <<v>>
IsSome(o) == o # <<>>
Val(o) == o[1]

SeqToSet(s) == {s[i] : i \in 1..Len(s)}

RemoveAt(s, i) == SubSeq(s, 1, i - 1) \o SubSeq(s, i + 1, Len(s))

\* Bounds of the model.
MaxMonitors == 3
MaxNow == 2
MaxJobs == 2
MaxLoads == 2
MaxCalls == 2
MaxEdits == 3
MaxRafs == 2
MaxDrags == 1
MaxPresses == 2
MaxZooms == 9
MaxDirtyEdits == 1

\* Date.now().toString() at each instant of the model's clock.
NowIds == <<"1700000000001", "1700000000002", "1700000000003", "1700000000004">>

\* displayId.toString()
DisplayIdString(n) == <<"1", "2", "3", "4">>[n]

\* parseInt(monitor.id): NaN for an id that does not start with a digit.
ParseInt(id) ==
    IF id \in SeqToSet(NowIds) \cup {"1", "2", "3", "4"}
    THEN [nan |-> FALSE, digits |-> id]
    ELSE [nan |-> TRUE, digits |-> ""]

Profiles == {"A"}

\* What the display enumeration can report (SystemMonitor records), sorted by
\* origin; the two-display list is the hook's MOCK_MONITORS geometry.
Display1 == [displayId |-> 1, x |-> 0, y |-> 0, width |-> 2560, height |-> 1440,
             isPrimary |-> TRUE]
Display2 == [displayId |-> 2, x |-> 2560, y |-> 540, width |-> 1440, height |-> 900,
             isPrimary |-> FALSE]
Display0 == [displayId |-> 3, x |-> -1920, y |-> 0, width |-> 1920, height |-> 1080,
             isPrimary |-> FALSE]
DisplayUp == [displayId |-> 2, x |-> 2560, y |-> -180, width |-> 1440, height |-> 900,
              isPrimary |-> FALSE]
DetectedLists == {<<>>, <<Display1>>, <<Display1, Display2>>, <<Display0, Display1>>}

\* What monitorApi.getMonitors can return for a profile (persisted records).
Stored1 == [id |-> "m-a", x |-> 0, y |-> 0, width |-> 2560, height |-> 1440,
            isPrimary |-> TRUE]
Stored2 == [id |-> "m-b", x |-> 2610, y |-> 0, width |-> 1440, height |-> 900,
            isPrimary |-> FALSE]
StoredLists == {<<>>, <<Stored1, Stored2>>}

\* What systemApi.applyMonitorLayout can answer: a resolved string or a
\* rejection carrying a message.
PermissionReply == [ok |-> TRUE, text |-> <<"PERMISSION_REQUIRED:", "Screen Recording">>]
ManualReply == [ok |-> TRUE, text |-> <<"MANUAL_COMMAND:", "displayplacer id:1">>]
AppliedReply == [ok |-> TRUE, text |-> <<"Layout applied">>]
EmptyReply == [ok |-> TRUE, text |-> <<>>]
ManualError == [ok |-> FALSE,
                text |-> <<"Failed.", "Please run this command manually", "displayplacer id:1">>]
OtherError == [ok |-> FALSE, text |-> <<"displayplacer not found">>]
ApplyReplies == {PermissionReply, ManualReply, AppliedReply, EmptyReply, ManualError,
                 OtherError}

StartsWith(text, prefix) == text # <<>> /\ Head(text) = prefix
Includes(text, token) == token \in SeqToSet(text)

(***************************************************************************)
(* Numbers of the program.                                                 *)
(***************************************************************************)
\* The double a decimal literal p/q denotes.
Lit(p, q) == FDiv(FromInt(p), FromInt(q))

DefaultScale == Lit(14, 100)
EmptyScale == Lit(15, 100)
ScaleCap == Lit(28, 100)
ScaleFloor == Lit(5, 100)
ZoomStep == Lit(5, 100)
ZoomMax == Lit(6, 10)
ZoomMin == Lit(4, 100)
CanvasPadding == 32
OffsetPadding == 12
Spacing == 50
NewWidth == 1920
NewHeight == 1080
InitialCanvas == [width |-> 800, height |-> 400]

(***************************************************************************)
(* Geometry of a monitor list (Monitor records: id, x, y as doubles,      *)
(* width, height as integers, isPrimary).                                  *)
(***************************************************************************)
RECURSIVE FMinOf(_)
FMinOf(s) == IF Len(s) = 1 THEN s[1] ELSE FMin(FMinOf(SubSeq(s, 1, Len(s) - 1)), s[Len(s)])

RECURSIVE FMaxOf(_)
FMaxOf(s) == IF Len(s) = 1 THEN s[1] ELSE FMax(FMaxOf(SubSeq(s, 1, Len(s) - 1)), s[Len(s)])

\* The bounding box the forEach loops compute, for a non-empty list.
BoundingBox(mons) ==
    [minX |-> FMinOf([i \in 1..Len(mons) |-> mons[i].x]),
     minY |-> FMinOf([i \in 1..Len(mons) |-> mons[i].y]),
     maxX |-> FMaxOf([i \in 1..Len(mons) |-> FAdd(mons[i].x, FromInt(mons[i].width))]),
     maxY |-> FMaxOf([i \in 1..Len(mons) |-> FAdd(mons[i].y, FromInt(mons[i].height))])]

BoxWidth(b) == FSub(b.maxX, b.minX)
BoxHeight(b) == FSub(b.maxY, b.minY)

TotalWidth(mons) == BoxWidth(BoundingBox(mons))
TotalHeight(mons) == BoxHeight(BoundingBox(mons))

\* A fit that looks at the width only.
FitScaleWidthOnly(mons, cl) ==
    FMax(FMin(FDiv(FromInt(cl.width - CanvasPadding), BoxWidth(BoundingBox(mons))), ScaleCap),
         ScaleFloor)

\* calculateDisplayScale with the canvas element mounted and of client size
\* cl: the scale before the Math.max with the minimum scale ...
FitUnclamped(mons, cl) ==
    FMin(FMin(FDiv(FromInt(cl.width - CanvasPadding), TotalWidth(mons)),
              FDiv(FromInt(cl.height - CanvasPadding), TotalHeight(mons))),
         ScaleCap)

\* ... and the scale it returns.
FitScale(mons, cl) == FMax(FitUnclamped(mons, cl), ScaleFloor)

\* calculateDisplayScale: mounted is whether canvasRef.current is set.
CalculateDisplayScale(mons, mounted, cl) ==
    IF Len(mons) = 0 \/ ~mounted THEN EmptyScale ELSE FitScale(mons, cl)

\* canvasOffsets (useMemo)
CentredOffset(extent, scaled, low, activeScale) ==
    FSub(FMax(FromInt(OffsetPadding), FDiv(FSub(FromInt(extent), scaled), FromInt(2))),
         FMul(low, activeScale))

OffsetsOfBox(b, cs, activeScale) ==
    [offsetX |-> CentredOffset(cs.width, FMul(BoxWidth(b), activeScale), b.minX,
                               activeScale),
     offsetY |-> CentredOffset(cs.height, FMul(BoxHeight(b), activeScale), b.minY,
                               activeScale)]

CanvasOffsets(mons, cs, activeScale) ==
    IF Len(mons) = 0 THEN [offsetX |-> FZero, offsetY |-> FZero]
    ELSE OffsetsOfBox(BoundingBox(mons), cs, activeScale)

\* detectedMonitors.map(...) of loadProfileMonitors
MapDetected(det) ==
    [i \in 1..Len(det) |->
        [id |-> DisplayIdString(det[i].displayId), x |-> FromInt(det[i].x),
         y |-> FromInt(det[i].y), width |-> det[i].width, height |-> det[i].height,
         isPrimary |-> det[i].isPrimary]]

\* profileMonitorData.map(...) of loadProfileMonitors
MapStored(data) ==
    [i \in 1..Len(data) |->
        [id |-> data[i].id, x |-> FromInt(data[i].x), y |-> FromInt(data[i].y),
         width |-> data[i].width, height |-> data[i].height,
         isPrimary |-> data[i].isPrimary]]

(***************************************************************************)
(* Preset layouts, add and remove.                                         *)
(***************************************************************************)
\* A row that leaves no spacing between the monitors.
RECURSIVE PlaceRowNoGap(_, _)
PlaceRowNoGap(mons, currentX) ==
    IF mons = <<>> THEN <<>>
    ELSE <<[Head(mons) EXCEPT !.x = currentX, !.y = [sg |-> 0, m |-> <<>>, e |-> 0]]>>
         \o PlaceRowNoGap(Tail(mons), FAdd(currentX, FromInt(Head(mons).width)))

\* monitors.map with the running currentX: each monitor at (currentX, 0).
RECURSIVE PlaceRow(_, _)
PlaceRow(mons, currentX) ==
    IF mons = <<>> THEN <<>>
    ELSE <<[Head(mons) EXCEPT !.x = currentX, !.y = FZero]>>
         \o PlaceRow(Tail(mons), FAdd(currentX, FromInt(Head(mons).width + Spacing)))

\* The currentX the row ends with.
RECURSIVE RowEnd(_, _)
RowEnd(mons, currentX) ==
    IF mons = <<>> THEN currentX
    ELSE RowEnd(Tail(mons), FAdd(currentX, FromInt(Head(mons).width + Spacing)))

RECURSIVE PlaceColumn(_, _)
PlaceColumn(mons, currentY) ==
    IF mons = <<>> THEN <<>>
    ELSE <<[Head(mons) EXCEPT !.x = FZero, !.y = currentY]>>
         \o PlaceColumn(Tail(mons), FAdd(currentY, FromInt(Head(mons).height + Spacing)))

FirstN(s, n) == SubSeq(s, 1, IF Len(s) < n THEN Len(s) ELSE n)

SideBySide(mons) == PlaceRow(mons, FZero)

DualVertical(mons) == PlaceColumn(FirstN(mons, 2), FZero)

TripleOf(mons, row) ==
    IF Len(row) < 3
    THEN Append(row, [id |-> "3", x |-> RowEnd(FirstN(mons, 3), FZero), y |-> FZero,
                      width |-> NewWidth, height |-> NewHeight, isPrimary |-> FALSE])
    ELSE row

Triple(mons) == TripleOf(mons, PlaceRow(FirstN(mons, 3), FZero))

PresetLayout(preset, mons) ==
    CASE preset = "dual-side" -> SideBySide(mons)
      [] preset = "dual-vertical" -> DualVertical(mons)
      [] preset = "triple" -> Triple(mons)
      [] OTHER -> <<>>

Presets == {"dual-side", "dual-vertical", "triple"}

\* The maxX of handleAddMonitor: the largest x + width + 50 above 0.
AddMaxStep(maxX, rightEdge) == IF FLt(maxX, rightEdge) THEN rightEdge ELSE maxX

RECURSIVE AddMaxX(_, _)
AddMaxX(mons, maxX) ==
    IF mons = <<>> THEN maxX
    ELSE AddMaxX(Tail(mons),
                 AddMaxStep(maxX, FAdd(FAdd(Head(mons).x, FromInt(Head(mons).width)),
                                       FromInt(Spacing))))

NewMonitor(mons, t) ==
    [id |-> NowIds[t], x |-> AddMaxX(mons, FZero), y |-> FZero, width |-> NewWidth,
     height |-> NewHeight, isPrimary |-> FALSE]

WithoutId(mons, id) == SelectSeq(mons, LAMBDA m : m.id # id)

HasId(mons, id) == \E i \in 1..Len(mons) : mons[i].id = id

IdsOf(mons) == {mons[i].id : i \in 1..Len(mons)}

(***************************************************************************)
(* The reconciliation plan of handleSaveLayout: the operations in the      *)
(* order the two loops issue them.                                         *)
(***************************************************************************)
\* A plan that leaves the removed monitors in the profile.
SavePlanKeepsRemoved(N, O) ==
    [i \in 1..Len(N) |->
        [op |-> IF \E j \in 1..Len(O) : O[j].id = N[i].id THEN "update" ELSE "create",
         id |-> N[i].id, x |-> MathRound(N[i].x), y |-> MathRound(N[i].y),
         width |-> N[i].width, height |-> N[i].height, displayIndex |-> i - 1]]

SaveOpFor(N, O, i) ==
    [op |-> IF HasId(O, N[i].id) THEN "update" ELSE "create",
     id |-> N[i].id, x |-> MathRound(N[i].x), y |-> MathRound(N[i].y),
     width |-> N[i].width, height |-> N[i].height, displayIndex |-> i - 1]

DeleteOpFor(O, j) ==
    [op |-> "delete", id |-> O[j].id, x |-> 0, y |-> 0, width |-> 0, height |-> 0,
     displayIndex |-> 0]

SavePlan(N, O) ==
    [i \in 1..Len(N) |-> SaveOpFor(N, O, i)]
    \o SelectSeq([j \in 1..Len(O) |-> DeleteOpFor(O, j)], LAMBDA d : ~HasId(N, d.id))

\* systemMonitors of handleApplyLayout
SystemMonitors(mons) ==
    [i \in 1..Len(mons) |->
        [displayId |-> ParseInt(mons[i].id), x |-> MathRound(mons[i].x),
         y |-> MathRound(mons[i].y), width |-> mons[i].width,
         height |-> mons[i].height, isPrimary |-> mons[i].isPrimary]]

VARIABLES
    \* MonitorEditor state (useState)
    monitors, profileMonitors, selectedProfile, isLoading, isSaving,
    hasUnsavedChanges, manualCommand, permissionNeeded,
    \* canvas state (useState) and the canvas element
    draggingMonitor, dragOffset, canvasSize, displayScale, lockedScale,
    lockedOffsets, canvasExpanded, manualZoom, clientSize, observed,
    \* operations in flight: saves and applies, profile loads, animation frames
    jobs, loads, rafs,
    \* useSystemDetection state and its calls in flight
    sMonitors, sWindows, sApps, sInstalled, sIsLoading, sError, sLastCapturedAt, calls,
    \* environment: isTauri(), Date.now()
    tauri, now,
    \* environment: the edits and presses of canvas controls the model still allows
    edits,
    \* history: the last step taken, with the outcome of the save or apply it
    \* ended, and the pointer-down snapshot of the drag
    act, snap

editorVars == <<monitors, profileMonitors, selectedProfile, isLoading, isSaving,
                hasUnsavedChanges, manualCommand, permissionNeeded>>
canvasVars == <<draggingMonitor, dragOffset, canvasSize, displayScale, lockedScale,
                lockedOffsets, canvasExpanded, manualZoom, clientSize, observed>>
asyncVars == <<jobs, loads, rafs>>
sessionVars == <<sMonitors, sWindows, sApps, sInstalled, sIsLoading, sError,
                 sLastCapturedAt, calls>>
envVars == <<tauri, now, edits>>
histVars == <<snap>>

vars == <<editorVars, canvasVars, asyncVars, sessionVars, envVars, histVars, act>>

\* A step of the history that ends neither a save nor an apply.
Step(name) == [name |-> name, info |-> None]

(***************************************************************************)
(* Derived values of a render.                                             *)
(***************************************************************************)
\* activeScale = lockedScale ?? displayScale
ActiveScale == IF IsSome(lockedScale) THEN Val(lockedScale) ELSE displayScale

\* canvasRef.current is set iff the canvas card is rendered (!isLoading).
Mounted == ~isLoading

\* lockedOffsets ?? canvasOffsets, the offsets the monitors are drawn with.
RenderOffsets ==
    IF IsSome(lockedOffsets) THEN Val(lockedOffsets)
    ELSE CanvasOffsets(monitors, canvasSize, ActiveScale)

\* The effect that recalculates the display scale: it runs when one of its
\* dependencies (monitors, canvasSize, lockedScale, manualZoom) was set, and
\* sets the scale only when no lock is held and the user has not zoomed.
\* ds is the scale the handler leaves, the other arguments the new state.
ScaleEffect(ds, depsChanged, mons, ls, mz, loading, cl) ==
    IF depsChanged /\ ls = None /\ ~mz
    THEN CalculateDisplayScale(mons, ~loading, cl)
    ELSE ds

\* setMonitors(mons) from a handler that touches no other dependency of the
\* scale effect.
SetMonitors(mons) ==
    /\ monitors' = mons
    /\ displayScale' = ScaleEffect(displayScale, TRUE, mons, lockedScale, manualZoom,
                                   isLoading, clientSize)

canvasRest == <<draggingMonitor, dragOffset, canvasSize, lockedScale, lockedOffsets,
                canvasExpanded, manualZoom, clientSize, observed>>

(***************************************************************************)
(* Edits of the monitor set: preset buttons, Add Monitor, the delete       *)
(* button of a monitor (on the canvas, so only while it is rendered).      *)
(***************************************************************************)
ApplyPresetLayout(preset) ==
    /\ edits < MaxEdits
    /\ edits' = edits + 1
    /\ SetMonitors(PresetLayout(preset, monitors))
    /\ hasUnsavedChanges' = TRUE
    /\ act' = Step(preset)
    /\ UNCHANGED <<profileMonitors, selectedProfile, isLoading, isSaving, manualCommand,
                   permissionNeeded, canvasRest, asyncVars, sessionVars, tauri, now,
                   histVars>>

\* t is the instant Date.now() reports.
HandleAddMonitor(t) ==
    /\ edits < MaxEdits
    /\ edits' = edits + 1
    /\ Len(monitors) < MaxMonitors
    /\ t >= now
    /\ now' = t
    /\ SetMonitors(Append(monitors, NewMonitor(monitors, t)))
    /\ hasUnsavedChanges' = TRUE
    /\ act' = Step("add")
    /\ UNCHANGED <<profileMonitors, selectedProfile, isLoading, isSaving, manualCommand,
                   permissionNeeded, canvasRest, asyncVars, sessionVars, tauri, histVars>>

\* A remove that leaves the dirty flag as it was.
HandleDeleteMonitorKeepsFlag(id) ==
    /\ edits < MaxEdits
    /\ edits' = edits + 1
    /\ Mounted
    /\ HasId(monitors, id)
    /\ SetMonitors(WithoutId(monitors, id))
    /\ hasUnsavedChanges' = hasUnsavedChanges
    /\ act' = Step("delete")
    /\ UNCHANGED <<profileMonitors, selectedProfile, isLoading, isSaving, manualCommand,
                   permissionNeeded, canvasRest, asyncVars, sessionVars, tauri, now,
                   histVars>>

HandleDeleteMonitor(id) ==
    /\ edits < MaxEdits
    /\ edits' = edits + 1
    /\ Mounted
    /\ HasId(monitors, id)
    /\ SetMonitors(WithoutId(monitors, id))
    /\ hasUnsavedChanges' = TRUE
    /\ act' = Step("delete")
    /\ UNCHANGED <<profileMonitors, selectedProfile, isLoading, isSaving, manualCommand,
                   permissionNeeded, canvasRest, asyncVars, sessionVars, tauri, now,
                   histVars>>

(***************************************************************************)
(* Save Layout.  The handler runs on the monitors and profileMonitors of   *)
(* the render it was created in (N and O of the job); each awaited         *)
(* operation is one step of the persistence collaborator, which may fail.  *)
(***************************************************************************)
\* The Save button is rendered only with a selected profile.
SaveRendered == IsSome(selectedProfile)
SaveDisabled == isSaving \/ ~hasUnsavedChanges

SaveJob(N, O) ==
    [kind |-> "save", N |-> N, O |-> O, k |-> 1, issued |-> <<SavePlan(N, O)[1]>>,
     payload |-> <<>>]

\* The report handleSaveLayout makes of a failed save: a toast with a fixed
\* description, naming neither the monitor nor the operation.
SaveFailureReport(failedOp) ==
    [title |-> "Error", description |-> "Failed to save monitor layout",
     monitor |-> None, operation |-> None]

\* The end of a save as the history records it: the sets it ran on, the
\* operations it issued, and for a failure the operation that failed and the
\* report made of it.
SaveEnded(N, O, issued, failed, report) ==
    [name |-> "saveEnd",
     info |-> Some([N |-> N, O |-> O, issued |-> issued,
                    outcome |-> IF failed = None THEN "success" ELSE "failed",
                    failed |-> failed, report |-> report])]

\* A success path that leaves the persisted baseline as it was.
SaveSuccessKeepsBaseline(N, O, issued) ==
    /\ profileMonitors' = profileMonitors
    /\ hasUnsavedChanges' = FALSE
    /\ isSaving' = FALSE
    /\ act' = SaveEnded(N, O, issued, None, None)

SaveSuccess(N, O, issued) ==
    /\ profileMonitors' = N
    /\ hasUnsavedChanges' = FALSE
    /\ isSaving' = FALSE
    /\ act' = SaveEnded(N, O, issued, None, None)

HandleSaveLayout ==
    /\ SaveRendered /\ ~SaveDisabled
    /\ Len(jobs) < MaxJobs
    /\ IF ~IsSome(selectedProfile) \/ ~tauri
       THEN /\ act' = Step("save-unavailable")
            /\ UNCHANGED <<profileMonitors, hasUnsavedChanges, isSaving, jobs>>
       ELSE IF SavePlan(monitors, profileMonitors) = <<>>
       THEN /\ SaveSuccess(monitors, profileMonitors, <<>>)
            /\ UNCHANGED jobs
       ELSE /\ isSaving' = TRUE
            /\ jobs' = Append(jobs, SaveJob(monitors, profileMonitors))
            /\ act' = Step("save")
            /\ UNCHANGED <<profileMonitors, hasUnsavedChanges>>
    /\ UNCHANGED <<monitors, selectedProfile, isLoading, manualCommand, permissionNeeded,
                   canvasVars, loads, rafs, sessionVars, envVars, snap>>

\* A rejection that ends the save as a success does: flag cleared.
SaveOperationDoneClearsFlag(j, ok) ==
    LET job  == jobs[j]
        plan == SavePlan(job.N, job.O)
    IN  /\ job.kind = "save"
        /\ IF ok /\ job.k < Len(plan)
           THEN /\ jobs' = [jobs EXCEPT ![j].k = job.k + 1,
                                        ![j].issued = Append(job.issued, plan[job.k + 1])]
                /\ act' = Step("saveOp")
                /\ UNCHANGED <<profileMonitors, hasUnsavedChanges, isSaving>>
           ELSE IF ok
           THEN /\ SaveSuccess(job.N, job.O, job.issued)
                /\ jobs' = RemoveAt(jobs, j)
           ELSE /\ isSaving' = FALSE
                /\ hasUnsavedChanges' = FALSE
                /\ jobs' = RemoveAt(jobs, j)
                /\ act' = SaveEnded(job.N, job.O, job.issued, Some(plan[job.k]),
                                    Some(SaveFailureReport(plan[job.k])))
                /\ UNCHANGED profileMonitors
        /\ UNCHANGED <<monitors, selectedProfile, isLoading, manualCommand,
                       permissionNeeded, canvasVars, loads, rafs, sessionVars, envVars,
                       snap>>

\* The operation in flight of save job j resolves (ok) or rejects.
SaveOperationDone(j, ok) ==
    LET job  == jobs[j]
        plan == SavePlan(job.N, job.O)
    IN  /\ job.kind = "save"
        /\ IF ok /\ job.k < Len(plan)
           THEN /\ jobs' = [jobs EXCEPT ![j].k = job.k + 1,
                                        ![j].issued = Append(job.issued, plan[job.k + 1])]
                /\ act' = Step("saveOp")
                /\ UNCHANGED <<profileMonitors, hasUnsavedChanges, isSaving>>
           ELSE IF ok
           THEN /\ SaveSuccess(job.N, job.O, job.issued)
                /\ jobs' = RemoveAt(jobs, j)
           ELSE /\ isSaving' = FALSE
                /\ jobs' = RemoveAt(jobs, j)
                /\ act' = SaveEnded(job.N, job.O, job.issued, Some(plan[job.k]),
                                    Some(SaveFailureReport(plan[job.k])))
                /\ UNCHANGED <<profileMonitors, hasUnsavedChanges>>
        /\ UNCHANGED <<monitors, selectedProfile, isLoading, manualCommand,
                       permissionNeeded, canvasVars, loads, rafs, sessionVars, envVars,
                       snap>>

(***************************************************************************)
(* Apply to System.                                                        *)
(***************************************************************************)
\* An Apply button that ignores the busy flag.
ApplyNeverDisabled == FALSE

\* The Apply button is rendered only in the Tauri app.
ApplyRendered == tauri
ApplyDisabled == isSaving

HandleApplyLayout ==
    /\ ApplyRendered /\ ~ApplyDisabled
    /\ Len(jobs) < MaxJobs
    /\ IF ~tauri
       THEN /\ act' = Step("apply-unavailable")
            /\ UNCHANGED <<isSaving, jobs>>
       ELSE IF Len(monitors) = 0
       THEN /\ act' = Step("apply-no-monitors")
            /\ UNCHANGED <<isSaving, jobs>>
       ELSE /\ isSaving' = TRUE
            /\ jobs' = Append(jobs, [kind |-> "apply", N |-> <<>>, O |-> <<>>, k |-> 0,
                                     issued |-> <<>>, payload |-> SystemMonitors(monitors)])
            /\ act' = Step("apply")
    /\ UNCHANGED <<monitors, profileMonitors, selectedProfile, isLoading,
                   hasUnsavedChanges, manualCommand, permissionNeeded, canvasVars, loads,
                   rafs, sessionVars, envVars, histVars>>

\* A handler without the PERMISSION_REQUIRED branch.
ApplySignalNoPermission(reply) ==
    IF reply.ok
    THEN IF reply.text # <<>> /\ Head(reply.text) = "MANUAL_COMMAND:" THEN "manual"
         ELSE "success"
    ELSE IF "Please run this command manually" \in {reply.text[i] : i \in 1..Len(reply.text)}
         THEN "manual"
         ELSE "failure"

\* What handleApplyLayout signals for a reply of the collaborator.
ApplySignal(reply) ==
    IF reply.ok
    THEN IF StartsWith(reply.text, "PERMISSION_REQUIRED:") THEN "permission"
         ELSE IF StartsWith(reply.text, "MANUAL_COMMAND:") THEN "manual"
         ELSE "success"
    ELSE IF Includes(reply.text, "Please run this command manually") THEN "manual"
         ELSE "failure"

\* The text handed to setManualCommand.
ManualCommandText(reply) == IF reply.ok THEN Tail(reply.text) ELSE reply.text

ApplyDone(j, reply) ==
    LET sig == ApplySignal(reply)
    IN  /\ jobs[j].kind = "apply"
        /\ permissionNeeded' = IF sig = "permission" THEN TRUE ELSE permissionNeeded
        /\ manualCommand' = IF sig = "manual" THEN Some(ManualCommandText(reply))
                            ELSE manualCommand
        /\ isSaving' = FALSE
        /\ jobs' = RemoveAt(jobs, j)
        /\ act' = [name |-> "applyEnd",
                   info |-> Some([reply |-> reply,
                                  permission |-> sig = "permission",
                                  success |-> sig = "success",
                                  failure |-> sig = "failure",
                                  manual |-> IF sig = "manual"
                                             THEN Some(ManualCommandText(reply))
                                             ELSE None])]
        /\ UNCHANGED <<monitors, profileMonitors, selectedProfile, isLoading,
                       hasUnsavedChanges, canvasVars, loads, rafs, sessionVars, envVars,
                       snap>>

\* The manual-command dialog is open while manualCommand is a non-empty string.
CloseManualDialog ==
    /\ IsSome(manualCommand) /\ Val(manualCommand) # <<>>
    /\ manualCommand' = None
    /\ act' = Step("closeManual")
    /\ UNCHANGED <<monitors, profileMonitors, selectedProfile, isLoading, isSaving,
                   hasUnsavedChanges, permissionNeeded, canvasVars, asyncVars,
                   sessionVars, envVars, histVars>>

ClosePermissionDialog ==
    /\ permissionNeeded
    /\ permissionNeeded' = FALSE
    /\ act' = Step("closePermission")
    /\ UNCHANGED <<monitors, profileMonitors, selectedProfile, isLoading, isSaving,
                   hasUnsavedChanges, manualCommand, canvasVars, asyncVars,
                   sessionVars, envVars, histVars>>

\* The onClick of "Open System Settings": in the app it awaits
\* systemApi.requestDisplayPermission() before setPermissionNeeded(false).
OpenSystemSettings ==
    /\ permissionNeeded
    /\ IF tauri
       THEN /\ Len(jobs) < MaxJobs
            /\ jobs' = Append(jobs, [kind |-> "permission", N |-> <<>>, O |-> <<>>,
                                     k |-> 0, issued |-> <<>>, payload |-> <<>>])
            /\ UNCHANGED permissionNeeded
       ELSE /\ permissionNeeded' = FALSE
            /\ UNCHANGED jobs
    /\ act' = Step("openSettings")
    /\ UNCHANGED <<monitors, profileMonitors, selectedProfile, isLoading, isSaving,
                   hasUnsavedChanges, manualCommand, canvasVars, loads, rafs,
                   sessionVars, envVars, histVars>>

\* requestDisplayPermission of job j resolves (ok) or rejects; a rejection
\* leaves the handler before setPermissionNeeded(false).
PermissionRequestDone(j, ok) ==
    /\ jobs[j].kind = "permission"
    /\ permissionNeeded' = IF ok THEN FALSE ELSE permissionNeeded
    /\ jobs' = RemoveAt(jobs, j)
    /\ act' = Step(IF ok THEN "settingsOpened" ELSE "settingsFailed")
    /\ UNCHANGED <<monitors, profileMonitors, selectedProfile, isLoading, isSaving,
                   hasUnsavedChanges, manualCommand, canvasVars, loads, rafs,
                   sessionVars, envVars, histVars>>

(***************************************************************************)
(* useSystemDetection: one instance of the hook.  Each operation below is  *)
(* the hook's part of a step; the steps of the specifications add what the *)
(* component holding the instance does with the new state.                 *)
(***************************************************************************)
MockMonitors == <<Display1, Display2>>
MockWindows == <<"mock-window">>
MockApps == <<"mock-app">>
MockInstalledApps == <<"mock-installed-app">>

WindowLists == {<<>>, <<"w1">>}
AppLists == {<<>>, <<"a1">>}
InstalledLists == {<<>>, <<"i1">>}

\* What systemApi.captureCurrentLayout can resolve with at instant t.
CapturedLayouts(t) ==
    {[capturedAt |-> t, monitors |-> m, windows |-> w, runningApps |-> a] :
        m \in DetectedLists \ {<<>>}, w \in WindowLists, a \in AppLists}

sessionRest == <<sWindows, sApps, sInstalled, sIsLoading, sError, sLastCapturedAt, calls>>

\* refreshAll up to its await (or to its end outside Tauri).
RefreshAllCall ==
    IF tauri
    THEN /\ sIsLoading' = TRUE
         /\ sError' = None
         /\ calls' = Append(calls, "refreshAll")
         /\ UNCHANGED <<sMonitors, sWindows, sApps, sInstalled, sLastCapturedAt>>
    ELSE /\ sMonitors' = MockMonitors
         /\ sWindows' = MockWindows
         /\ sApps' = MockApps
         /\ sInstalled' = MockInstalledApps
         /\ sIsLoading' = FALSE
         /\ sError' = None
         /\ sLastCapturedAt' = Some(now)
         /\ UNCHANGED calls

\* Promise.all of refreshAll settles: on success the background request for
\* the running apps takes the call's place.
RefreshAllSettle(i, ok, mons, wins) ==
    /\ calls[i] = "refreshAll"
    /\ IF ok
       THEN /\ sMonitors' = mons
            /\ sWindows' = wins
            /\ sIsLoading' = FALSE
            /\ sError' = None
            /\ sLastCapturedAt' = Some(now)
            /\ calls' = [calls EXCEPT ![i] = "runningAppsOfAll"]
            /\ UNCHANGED <<sApps, sInstalled>>
       ELSE /\ sIsLoading' = FALSE
            /\ sError' = Some("error")
            /\ calls' = RemoveAt(calls, i)
            /\ UNCHANGED <<sMonitors, sWindows, sApps, sInstalled, sLastCapturedAt>>

\* A background fetch whose failure is recorded as the session error.
BackgroundAppsSettleSurfacesError(i, ok, apps) ==
    /\ calls[i] = "runningAppsOfAll"
    /\ sApps' = IF ok THEN apps ELSE sApps
    /\ sError' = IF ok THEN sError ELSE Some("error")
    /\ calls' = RemoveAt(calls, i)
    /\ UNCHANGED <<sMonitors, sWindows, sInstalled, sIsLoading, sLastCapturedAt>>

\* The background getRunningApps of refreshAll settles; a failure is silent.
BackgroundAppsSettle(i, ok, apps) ==
    /\ calls[i] = "runningAppsOfAll"
    /\ sApps' = IF ok THEN apps ELSE sApps
    /\ calls' = RemoveAt(calls, i)
    /\ UNCHANGED <<sMonitors, sWindows, sInstalled, sIsLoading, sError, sLastCapturedAt>>

\* captureLayout up to its await (or to its end outside Tauri).
CaptureLayoutCall ==
    IF tauri
    THEN /\ sIsLoading' = TRUE
         /\ sError' = None
         /\ calls' = Append(calls, "capture")
         /\ UNCHANGED <<sMonitors, sWindows, sApps, sInstalled, sLastCapturedAt>>
    ELSE /\ sMonitors' = MockMonitors
         /\ sWindows' = MockWindows
         /\ sApps' = MockApps
         /\ sLastCapturedAt' = Some(now)
         /\ UNCHANGED <<sInstalled, sIsLoading, sError, calls>>

\* A captureLayout whose catch leaves the busy flag set.
CaptureLayoutSettleStaysBusy(i, ok, layout) ==
    /\ calls[i] = "capture"
    /\ calls' = RemoveAt(calls, i)
    /\ IF ok
       THEN /\ sMonitors' = layout.monitors
            /\ sWindows' = layout.windows
            /\ sApps' = layout.runningApps
            /\ sIsLoading' = FALSE
            /\ sLastCapturedAt' = Some(layout.capturedAt)
            /\ UNCHANGED <<sInstalled, sError>>
       ELSE /\ sError' = Some("error")
            /\ UNCHANGED <<sMonitors, sWindows, sApps, sInstalled, sIsLoading, sLastCapturedAt>>

CaptureLayoutSettle(i, ok, layout) ==
    /\ calls[i] = "capture"
    /\ calls' = RemoveAt(calls, i)
    /\ sIsLoading' = FALSE
    /\ IF ok
       THEN /\ sMonitors' = layout.monitors
            /\ sWindows' = layout.windows
            /\ sApps' = layout.runningApps
            /\ sLastCapturedAt' = Some(layout.capturedAt)
            /\ UNCHANGED <<sInstalled, sError>>
       ELSE /\ sError' = Some("error")
            /\ UNCHANGED <<sMonitors, sWindows, sApps, sInstalled, sLastCapturedAt>>

RefreshMonitorsCall ==
    IF tauri
    THEN /\ calls' = Append(calls, "monitors")
         /\ UNCHANGED <<sMonitors, sWindows, sApps, sInstalled, sIsLoading, sError, sLastCapturedAt>>
    ELSE /\ sMonitors' = MockMonitors
         /\ UNCHANGED sessionRest

\* A refreshMonitors that ends like captureLayout, clearing the busy flag.
RefreshMonitorsSettleClearsBusy(i, ok, mons) ==
    /\ calls[i] = "monitors"
    /\ calls' = RemoveAt(calls, i)
    /\ sMonitors' = IF ok THEN mons ELSE sMonitors
    /\ sError' = IF ok THEN None ELSE Some("error")
    /\ sIsLoading' = FALSE
    /\ UNCHANGED <<sWindows, sApps, sInstalled, sLastCapturedAt>>

RefreshMonitorsSettle(i, ok, mons) ==
    /\ calls[i] = "monitors"
    /\ calls' = RemoveAt(calls, i)
    /\ sMonitors' = IF ok THEN mons ELSE sMonitors
    /\ sError' = IF ok THEN None ELSE Some("error")
    /\ UNCHANGED <<sWindows, sApps, sInstalled, sIsLoading, sLastCapturedAt>>

RefreshWindowsCall ==
    IF tauri
    THEN /\ calls' = Append(calls, "windows")
         /\ UNCHANGED <<sMonitors, sWindows, sApps, sInstalled, sIsLoading, sError, sLastCapturedAt>>
    ELSE /\ sWindows' = MockWindows
         /\ UNCHANGED <<sMonitors, sApps, sInstalled, sIsLoading, sError, sLastCapturedAt, calls>>

RefreshWindowsSettle(i, ok, wins) ==
    /\ calls[i] = "windows"
    /\ calls' = RemoveAt(calls, i)
    /\ sWindows' = IF ok THEN wins ELSE sWindows
    /\ sError' = IF ok THEN None ELSE Some("error")
    /\ UNCHANGED <<sMonitors, sApps, sInstalled, sIsLoading, sLastCapturedAt>>

RefreshRunningAppsCall ==
    IF tauri
    THEN /\ calls' = Append(calls, "runningApps")
         /\ UNCHANGED <<sMonitors, sWindows, sApps, sInstalled, sIsLoading, sError, sLastCapturedAt>>
    ELSE /\ sApps' = MockApps
         /\ UNCHANGED <<sMonitors, sWindows, sInstalled, sIsLoading, sError, sLastCapturedAt,
                        calls>>

RefreshRunningAppsSettle(i, ok, apps) ==
    /\ calls[i] = "runningApps"
    /\ calls' = RemoveAt(calls, i)
    /\ sApps' = IF ok THEN apps ELSE sApps
    /\ sError' = IF ok THEN None ELSE Some("error")
    /\ UNCHANGED <<sMonitors, sWindows, sInstalled, sIsLoading, sLastCapturedAt>>

RefreshInstalledAppsCall ==
    IF tauri
    THEN /\ calls' = Append(calls, "installedApps")
         /\ UNCHANGED <<sMonitors, sWindows, sApps, sInstalled, sIsLoading, sError,
                        sLastCapturedAt>>
    ELSE /\ sInstalled' = MockInstalledApps
         /\ UNCHANGED <<sMonitors, sWindows, sApps, sIsLoading, sError, sLastCapturedAt,
                        calls>>

RefreshInstalledAppsSettle(i, ok, installed) ==
    /\ calls[i] = "installedApps"
    /\ calls' = RemoveAt(calls, i)
    /\ sInstalled' = IF ok THEN installed ELSE sInstalled
    /\ sError' = IF ok THEN None ELSE Some("error")
    /\ UNCHANGED <<sMonitors, sWindows, sApps, sIsLoading, sLastCapturedAt>>

(***************************************************************************)
(* The editor's effect loadProfileMonitors, run when selectedProfile or    *)
(* the detected monitors (a new array) change.                             *)
(***************************************************************************)
\* Whether the run awaits monitorApi.getMonitors.
LoadIsAsync(profile) == IsSome(profile) /\ tauri

\* The run of the effect for the new props: up to its end when it awaits
\* nothing, up to its await otherwise (the canvas card is then replaced by
\* the loading state, and the ResizeObserver stays on the removed element).
LoadProfileMonitors(profile, det) ==
    IF LoadIsAsync(profile)
    THEN /\ isLoading' = TRUE
         /\ loads' = Append(loads, [profile |-> Val(profile), det |-> det])
         /\ observed' = FALSE
         /\ UNCHANGED <<monitors, profileMonitors, displayScale>>
    ELSE /\ IF Len(det) > 0
            THEN /\ SetMonitors(MapDetected(det))
                 /\ profileMonitors' = <<>>
            ELSE UNCHANGED <<monitors, profileMonitors, displayScale>>
         /\ UNCHANGED <<isLoading, loads, observed>>

loadRest == <<draggingMonitor, dragOffset, canvasSize, lockedScale, lockedOffsets,
              canvasExpanded, manualZoom, clientSize>>

\* The parent passes another selectedProfile (the selector's onValueChange).
SelectProfileChange(profile) ==
    /\ profile # selectedProfile
    /\ selectedProfile' = profile
    /\ LoadProfileMonitors(profile, sMonitors)
    /\ act' = Step("select")
    /\ UNCHANGED <<isSaving, hasUnsavedChanges, manualCommand, permissionNeeded,
                   loadRest, jobs, rafs, sessionVars, envVars, histVars>>

SelectProfile(profile) ==
    /\ LoadIsAsync(profile) => Len(loads) < MaxLoads
    /\ SelectProfileChange(profile)

\* monitorApi.getMonitors of load i settles.
LoadSettle(i, ok, data) ==
    LET l == loads[i]
        fromProfile == ok /\ Len(data) > 0
        fromDetected == ~fromProfile /\ Len(l.det) > 0
        mons == IF fromProfile THEN MapStored(data)
                ELSE IF fromDetected THEN MapDetected(l.det)
                ELSE monitors
    IN  /\ monitors' = mons
        /\ profileMonitors' = IF fromProfile THEN mons
                              ELSE IF fromDetected THEN <<>>
                              ELSE profileMonitors
        /\ hasUnsavedChanges' = IF ok THEN fromDetected ELSE hasUnsavedChanges
        /\ isLoading' = FALSE
        /\ loads' = RemoveAt(loads, i)
        /\ displayScale' = ScaleEffect(displayScale, fromProfile \/ fromDetected, mons,
                                       lockedScale, manualZoom, FALSE, clientSize)
        /\ act' = Step(IF ok THEN "loaded" ELSE "load-error")
        /\ UNCHANGED <<selectedProfile, isSaving, manualCommand, permissionNeeded,
                       loadRest, observed, jobs, rafs, sessionVars, envVars, histVars>>

(***************************************************************************)
(* The editor's instance of the hook: the mount effect's refreshAll, the   *)
(* Refresh button, and the effect above on a new detectedMonitors array.   *)
(***************************************************************************)
editorRest == <<selectedProfile, isSaving, hasUnsavedChanges, manualCommand,
                permissionNeeded, loadRest, jobs, rafs, envVars, histVars>>

RefreshDisabled == sIsLoading \/ isLoading

HandleRefreshMonitors ==
    /\ ~RefreshDisabled
    /\ tauri => Len(calls) < MaxCalls
    /\ ~tauri /\ sMonitors # MockMonitors /\ LoadIsAsync(selectedProfile)
         => Len(loads) < MaxLoads
    /\ RefreshMonitorsCall
    /\ IF ~tauri /\ sMonitors # MockMonitors
       THEN LoadProfileMonitors(selectedProfile, MockMonitors)
       ELSE UNCHANGED <<monitors, profileMonitors, displayScale, isLoading, loads, observed>>
    /\ act' = Step("refresh")
    /\ UNCHANGED editorRest

EditorMonitorsSettle(i, ok, mons) ==
    /\ ok /\ LoadIsAsync(selectedProfile) => Len(loads) < MaxLoads
    /\ RefreshMonitorsSettle(i, ok, mons)
    /\ IF ok THEN LoadProfileMonitors(selectedProfile, mons)
       ELSE UNCHANGED <<monitors, profileMonitors, displayScale, isLoading, loads, observed>>
    /\ act' = Step("monitorsSettled")
    /\ UNCHANGED editorRest

EditorRefreshAllSettle(i, ok, mons, wins) ==
    /\ ok /\ LoadIsAsync(selectedProfile) => Len(loads) < MaxLoads
    /\ RefreshAllSettle(i, ok, mons, wins)
    /\ IF ok THEN LoadProfileMonitors(selectedProfile, mons)
       ELSE UNCHANGED <<monitors, profileMonitors, displayScale, isLoading, loads, observed>>
    /\ act' = Step("allSettled")
    /\ UNCHANGED editorRest

EditorAppsSettle(i, ok, apps) ==
    /\ BackgroundAppsSettle(i, ok, apps)
    /\ act' = Step("appsSettled")
    /\ UNCHANGED <<editorVars, canvasVars, asyncVars, envVars, histVars>>

(***************************************************************************)
(* The canvas: pointer handlers, zoom, fit, expand, animation frames and   *)
(* resizes.  Pointer coordinates are e.clientX - rect.left and             *)
(* e.clientY - rect.top, whole CSS pixels.                                 *)
(***************************************************************************)
\* canvasOffsets of the current render.
LiveOffsets == CanvasOffsets(monitors, canvasSize, ActiveScale)

\* A move that reads the offsets of the current render, not the locked ones.
OffsetsUnlocked == CanvasOffsets(monitors, canvasSize, ActiveScale)

\* offsetsAtDrag of handleMouseMove: lockedOffsets ?? canvasOffsets
OffsetsAtDrag == IF IsSome(lockedOffsets) THEN Val(lockedOffsets) ELSE LiveOffsets

FirstWithId(mons, id) == mons[CHOOSE i \in 1..Len(mons) :
                                  /\ mons[i].id = id
                                  /\ \A j \in 1..(i - 1) : mons[j].id # id]

\* The pointer is inside the extent a length at origin is drawn with.
Covers(origin, length, p, scale, offset) ==
    /\ FLe(FAdd(FMul(origin, scale), offset), FromInt(p))
    /\ FLe(FromInt(p), FAdd(FAdd(FMul(origin, scale), offset),
                            FMul(FromInt(length), scale)))

\* The pointer is on the rectangle monitor m is drawn in.
PointerOn(m, px, py, scale, offsets) ==
    /\ Covers(m.x, m.width, px, scale, offsets.offsetX)
    /\ Covers(m.y, m.height, py, scale, offsets.offsetY)

\* (pointer - offset) / scale - origin, the anchor of handleMonitorMouseDown
Anchor(p, offset, scale, origin) == FSub(FDiv(FSub(FromInt(p), offset), scale), origin)

\* (pointer - offset) / lockedScale - anchor, the origin of handleMouseMove
DragOrigin(p, offset, scale, anchor) == FSub(FDiv(FSub(FromInt(p), offset), scale), anchor)

\* The number of pointer-downs the history has seen.
Drags == IF IsSome(snap) THEN Val(snap).drags ELSE 0

\* The body of handleMonitorMouseDown for the monitor found, the scale and
\* the offsets of the render.
MouseDownOn(m, px, py, scaleToLock, offsetsAtDown) ==
    /\ lockedScale' = Some(scaleToLock)
    /\ lockedOffsets' = Some(offsetsAtDown)
    /\ draggingMonitor' = Some(m.id)
    /\ dragOffset' = [x |-> Anchor(px, offsetsAtDown.offsetX, scaleToLock, m.x),
                      y |-> Anchor(py, offsetsAtDown.offsetY, scaleToLock, m.y)]
    /\ snap' = Some([scale   |-> scaleToLock,
                     offsets |-> offsetsAtDown,
                     origin  |-> [x |-> m.x, y |-> m.y],
                     down    |-> <<px, py>>,
                     trail   |-> {},
                     last    |-> <<>>,
                     drags   |-> Drags + 1])

\* mousedown on an element drawn for id, which is under the pointer; the
\* handler takes the anchor against the first monitor of that id.
HandleMonitorMouseDown(id, px, py) ==
    /\ Mounted
    /\ HasId(monitors, id)
    /\ Drags < MaxDrags
    /\ \E i \in 1..Len(monitors) :
           /\ monitors[i].id = id
           /\ PointerOn(monitors[i], px, py, ActiveScale, RenderOffsets)
    /\ MouseDownOn(FirstWithId(monitors, id), px, py, displayScale, LiveOffsets)
    /\ act' = Step("mouseDown")
    /\ UNCHANGED <<editorVars, canvasSize, displayScale, canvasExpanded, manualZoom,
                   clientSize, observed, asyncVars, sessionVars, envVars>>

\* setMonitors of handleMouseMove with the new origin.
MoveDragged(px, py, newX, newY) ==
    /\ monitors' = [i \in 1..Len(monitors) |->
                       IF monitors[i].id = Val(draggingMonitor)
                       THEN [monitors[i] EXCEPT !.x = newX, !.y = newY]
                       ELSE monitors[i]]
    /\ snap' = Some([Val(snap) EXCEPT
                        !.trail = @ \cup {[at |-> <<px, py>>,
                                           origin |-> [x |-> newX, y |-> newY]]},
                        !.last = <<px, py>>])

\* A pointer move over the canvas that passes the guard of handleMouseMove.
HandleMouseMove(px, py) ==
    /\ IsSome(draggingMonitor) /\ Mounted /\ IsSome(lockedScale)
    /\ px <= clientSize.width /\ py <= clientSize.height
    /\ MoveDragged(px, py,
                   DragOrigin(px, OffsetsAtDrag.offsetX, Val(lockedScale), dragOffset.x),
                   DragOrigin(py, OffsetsAtDrag.offsetY, Val(lockedScale), dragOffset.y))
    /\ hasUnsavedChanges' = TRUE
    /\ act' = Step("mouseMove")
    /\ UNCHANGED <<profileMonitors, selectedProfile, isLoading, isSaving, manualCommand,
                   permissionNeeded, canvasVars, asyncVars, sessionVars, envVars>>

\* mouseup or mouseleave on the canvas.
HandleMouseUp ==
    /\ Mounted
    /\ IsSome(draggingMonitor) \/ IsSome(lockedScale) \/ IsSome(lockedOffsets)
    /\ draggingMonitor' = None
    /\ lockedScale' = None
    /\ lockedOffsets' = None
    /\ displayScale' = ScaleEffect(displayScale, IsSome(lockedScale), monitors, None,
                                   manualZoom, isLoading, clientSize)
    /\ snap' = IF IsSome(snap) THEN Some([Val(snap) EXCEPT !.trail = {}, !.last = <<>>])
               ELSE snap
    /\ act' = Step("mouseUp")
    /\ UNCHANGED <<editorVars, dragOffset, canvasSize, canvasExpanded, manualZoom,
                   clientSize, observed, asyncVars, sessionVars, envVars>>

\* A zoom-in that adds the step without the upper clamp.
ZoomInUnclamped ==
    /\ Mounted
    /\ displayScale' = FAdd(displayScale, ZoomStep)
    /\ manualZoom' = TRUE
    /\ act' = Step("zoomIn")
    /\ UNCHANGED <<editorVars, draggingMonitor, dragOffset, canvasSize, lockedScale,
                   lockedOffsets, canvasExpanded, clientSize, observed, asyncVars,
                   sessionVars, tauri, now, histVars>>

\* The onClick of the zoom buttons; the number of presses is counted by the
\* step that takes it.
ZoomInPress ==
    /\ Mounted
    /\ displayScale' = FMin(FAdd(displayScale, ZoomStep), ZoomMax)
    /\ manualZoom' = TRUE
    /\ act' = Step("zoomIn")
    /\ UNCHANGED <<editorVars, draggingMonitor, dragOffset, canvasSize, lockedScale,
                   lockedOffsets, canvasExpanded, clientSize, observed, asyncVars,
                   sessionVars, tauri, now, histVars>>

ZoomOutPress ==
    /\ Mounted
    /\ displayScale' = FMax(FSub(displayScale, ZoomStep), ZoomMin)
    /\ manualZoom' = TRUE
    /\ act' = Step("zoomOut")
    /\ UNCHANGED <<editorVars, draggingMonitor, dragOffset, canvasSize, lockedScale,
                   lockedOffsets, canvasExpanded, clientSize, observed, asyncVars,
                   sessionVars, tauri, now, histVars>>

ZoomIn == edits < MaxPresses /\ edits' = edits + 1 /\ ZoomInPress

ZoomOut == edits < MaxPresses /\ edits' = edits + 1 /\ ZoomOutPress

\* A pending requestAnimationFrame callback: the monitors its
\* calculateDisplayScale closed over, and the control that asked for it.
Frame(from) == [from |-> from, mons |-> monitors]

FitToCanvas ==
    /\ Mounted
    /\ edits < MaxPresses
    /\ edits' = edits + 1
    /\ Len(rafs) < MaxRafs
    /\ lockedScale' = None
    /\ manualZoom' = FALSE
    /\ rafs' = Append(rafs, Frame("fit"))
    /\ displayScale' = ScaleEffect(displayScale, IsSome(lockedScale) \/ manualZoom,
                                   monitors, None, FALSE, isLoading, clientSize)
    /\ act' = Step("fit")
    /\ UNCHANGED <<editorVars, draggingMonitor, dragOffset, canvasSize, lockedOffsets,
                   canvasExpanded, clientSize, observed, jobs, loads, sessionVars,
                   tauri, now, histVars>>

ToggleExpand ==
    /\ Mounted
    /\ edits < MaxPresses
    /\ edits' = edits + 1
    /\ Len(rafs) < MaxRafs
    /\ canvasExpanded' = ~canvasExpanded
    /\ rafs' = Append(rafs, Frame("expand"))
    /\ act' = Step("expand")
    /\ UNCHANGED <<editorVars, draggingMonitor, dragOffset, canvasSize, displayScale,
                   lockedScale, lockedOffsets, manualZoom, clientSize, observed, jobs,
                   loads, sessionVars, tauri, now, histVars>>

\* The next animation frame runs the oldest pending callback.
AnimationFrame ==
    /\ rafs # <<>>
    /\ displayScale' = CalculateDisplayScale(Head(rafs).mons, Mounted, clientSize)
    /\ rafs' = Tail(rafs)
    /\ act' = Step(IF Head(rafs).from = "fit" THEN "fitFrame" ELSE "expandFrame")
    /\ UNCHANGED <<editorVars, draggingMonitor, dragOffset, canvasSize, lockedScale,
                   lockedOffsets, canvasExpanded, manualZoom, clientSize, observed, jobs,
                   loads, sessionVars, envVars, histVars>>

\* The window's resize event fires with the canvas element at size, or the
\* element gets another client size by a change of the layout around it:
\* updateCanvasSize stores the size, in a new object, on every resize event
\* and whenever the ResizeObserver still watches the element.
CanvasResize(size, windowEvent) ==
    LET seen == Mounted /\ (windowEvent \/ observed)
    IN  /\ edits < MaxPresses
        /\ edits' = edits + 1
        /\ windowEvent \/ size # clientSize
        /\ clientSize' = size
        /\ canvasSize' = IF seen THEN size ELSE canvasSize
        /\ displayScale' = ScaleEffect(displayScale, seen, monitors, lockedScale,
                                       manualZoom, isLoading, size)
        /\ act' = Step("resize")
        /\ UNCHANGED <<editorVars, draggingMonitor, dragOffset, lockedScale,
                       lockedOffsets, canvasExpanded, manualZoom, observed, asyncVars,
                       sessionVars, tauri, now, histVars>>

(***************************************************************************)
(* Construction.  Mounted(profile, t, size) is the state once the mount    *)
(* effects of the editor, given selectedProfile = profile, have run: the   *)
(* canvas size is read, the hook's refreshAll is started (outside Tauri it *)
(* has already stored the mock data, which the editor has mapped), and     *)
(* with a profile in Tauri the first load is awaited.                      *)
(***************************************************************************)
EditorCanvas == [width |-> 800, height |-> 400]

Constructed(profile, t, size) ==
    LET mons == IF t THEN <<>> ELSE MapDetected(MockMonitors)
        loading == IsSome(profile) /\ t
    IN  /\ tauri = t
        /\ now = 1
        /\ selectedProfile = profile
        /\ monitors = mons
        /\ profileMonitors = <<>>
        /\ isLoading = loading
        /\ isSaving = FALSE
        /\ hasUnsavedChanges = FALSE
        /\ manualCommand = None
        /\ permissionNeeded = FALSE
        /\ draggingMonitor = None
        /\ dragOffset = [x |-> FZero, y |-> FZero]
        /\ canvasSize = size
        /\ clientSize = size
        /\ observed = ~loading
        /\ displayScale = CalculateDisplayScale(mons, ~loading, size)
        /\ lockedScale = None
        /\ lockedOffsets = None
        /\ canvasExpanded = FALSE
        /\ manualZoom = FALSE
        /\ jobs = <<>>
        /\ loads = IF loading THEN <<[profile |-> Val(profile), det |-> <<>>]>> ELSE <<>>
        /\ rafs = <<>>
        /\ sMonitors = IF t THEN <<>> ELSE MockMonitors
        /\ sWindows = IF t THEN <<>> ELSE MockWindows
        /\ sApps = IF t THEN <<>> ELSE MockApps
        /\ sInstalled = IF t THEN <<>> ELSE MockInstalledApps
        /\ sIsLoading = t
        /\ sError = None
        /\ sLastCapturedAt = IF t THEN None ELSE Some(1)
        /\ calls = IF t THEN <<"refreshAll">> ELSE <<>>
        /\ act = Step("mount")
        /\ edits = 0
        /\ snap = None

ProfileChoices == {None} \cup {Some(p) : p \in Profiles}

Init == \E profile \in ProfileChoices, t \in BOOLEAN : Constructed(profile, t, EditorCanvas)

(***************************************************************************)
(* The editor as the owner of a profile's layout: the first detection,     *)
(* profile selection and loading, edits of the monitor set, and save.      *)
(***************************************************************************)
\* What the first detection can report to the editor.
EditorDetected == {<<>>, <<Display1, Display2>>}

Next ==
    \/ \E i \in 1..Len(loads), ok \in BOOLEAN, data \in StoredLists : LoadSettle(i, ok, data)
    \/ \E i \in 1..Len(calls), ok \in BOOLEAN, mons \in EditorDetected :
           EditorRefreshAllSettle(i, ok, mons, <<"w1">>)
    \/ \E t \in 1..MaxNow : HandleAddMonitor(t)
    \/ \E id \in IdsOf(monitors) : HandleDeleteMonitor(id)
    \/ HandleSaveLayout
    \/ \E j \in 1..Len(jobs), ok \in BOOLEAN : SaveOperationDone(j, ok)

Spec == Init /\ [][Next]_vars

(***************************************************************************)
(* The editor's busy flag: apply and save, with the dialogs of apply.      *)
(***************************************************************************)
NextApply ==
    \/ \E i \in 1..Len(loads), ok \in BOOLEAN, data \in StoredLists : LoadSettle(i, ok, data)
    \/ \E i \in 1..Len(calls), ok \in BOOLEAN, mons \in EditorDetected :
           EditorRefreshAllSettle(i, ok, mons, <<"w1">>)
    \/ HandleSaveLayout
    \/ \E j \in 1..Len(jobs), ok \in BOOLEAN : SaveOperationDone(j, ok)
    \/ HandleApplyLayout
    \/ \E j \in 1..Len(jobs), reply \in ApplyReplies : ApplyDone(j, reply)
    \/ CloseManualDialog
    \/ ClosePermissionDialog
    \/ OpenSystemSettings
    \/ \E j \in 1..Len(jobs), ok \in BOOLEAN : PermissionRequestDone(j, ok)

SpecApply == Init /\ [][NextApply]_vars

(***************************************************************************)
(* The arrangement canvas: drags, zoom, fit, expand, animation frames and  *)
(* resizes, on the monitors of the first detection or of a loaded profile. *)
(***************************************************************************)
\* Pointer positions on the canvas (e.clientX - rect.left, e.clientY - rect.top).
Pointers == {<<520, 110>>, <<600, 200>>}

\* Client sizes the canvas element can take.
ClientSizes == {EditorCanvas, [width |-> 640, height |-> 300]}

\* The sizes of a narrow window as well.
LayoutSizes == ClientSizes \cup {[width |-> 300, height |-> 240]}

CanvasDetected == {<<Display1, DisplayUp>>}

NextCanvas ==
    \/ \E i \in 1..Len(calls), ok \in BOOLEAN, mons \in CanvasDetected :
           EditorRefreshAllSettle(i, ok, mons, <<"w1">>)
    \/ \E id \in IdsOf(monitors), p \in Pointers : HandleMonitorMouseDown(id, p[1], p[2])
    \/ \E p \in Pointers : HandleMouseMove(p[1], p[2])
    \/ HandleMouseUp
    \/ ZoomIn
    \/ ZoomOut
    \/ FitToCanvas
    \/ ToggleExpand
    \/ AnimationFrame
    \/ \E size \in ClientSizes, windowEvent \in BOOLEAN : CanvasResize(size, windowEvent)

CanvasInit == Init /\ selectedProfile = None

SpecCanvas == CanvasInit /\ [][NextCanvas]_vars

(***************************************************************************)
(* The layout of the monitor set: detection, refresh, profile selection,   *)
(* presets, add, remove, and the size of the canvas.                       *)
(***************************************************************************)
NextLayout ==
    \/ \E i \in 1..Len(loads), ok \in BOOLEAN, data \in StoredLists : LoadSettle(i, ok, data)
    \/ \E i \in 1..Len(calls), ok \in BOOLEAN, mons \in DetectedLists :
           EditorRefreshAllSettle(i, ok, mons, <<"w1">>)
    \/ \E preset \in Presets : ApplyPresetLayout(preset)
    \/ \E t \in 1..MaxNow : HandleAddMonitor(t)
    \/ \E id \in IdsOf(monitors) : HandleDeleteMonitor(id)
    \/ \E size \in LayoutSizes, windowEvent \in BOOLEAN : CanvasResize(size, windowEvent)

SpecLayout == Init /\ [][NextLayout]_vars

(***************************************************************************)
(* Detection as the editor sees it: the Refresh button, the settling of    *)
(* the hook's calls, and the selection of a profile.                       *)
(***************************************************************************)
NextDetect ==
    \/ \E i \in 1..Len(loads), ok \in BOOLEAN, data \in StoredLists : LoadSettle(i, ok, data)
    \/ \E i \in 1..Len(calls), ok \in BOOLEAN, mons \in EditorDetected :
           EditorRefreshAllSettle(i, ok, mons, <<"w1">>)
    \/ \E i \in 1..Len(calls), ok \in BOOLEAN : EditorAppsSettle(i, ok, <<"a1">>)
    \/ HandleRefreshMonitors
    \/ \E i \in 1..Len(calls), ok \in BOOLEAN, mons \in EditorDetected :
           EditorMonitorsSettle(i, ok, mons)
    \/ \E profile \in ProfileChoices : SelectProfile(profile)
    \/ \E id \in IdsOf(monitors) : HandleDeleteMonitor(id)

SpecDetect == Init /\ [][NextDetect]_vars

(***************************************************************************)
(* A capture session: one instance of useSystemDetection and the calls a   *)
(* holder of it makes.  The instance is not the editor's: the editor's     *)
(* state stays as it is.                                                   *)
(***************************************************************************)
SessionStep(name) ==
    /\ act' = Step(name)
    /\ UNCHANGED <<editorVars, canvasVars, asyncVars, envVars, histVars>>

\* A settling step of the session, with whether the request succeeded.
SessionSettle(name, ok) ==
    /\ act' = [name |-> name, info |-> Some(ok)]
    /\ UNCHANGED <<editorVars, canvasVars, asyncVars, envVars, histVars>>

RefreshAll == Len(calls) < MaxCalls /\ RefreshAllCall /\ SessionStep("refreshAll")

RefreshAllSettled(i, ok, mons, wins) ==
    RefreshAllSettle(i, ok, mons, wins) /\ SessionSettle("allSettled", ok)

BackgroundAppsSettled(i, ok, apps) ==
    BackgroundAppsSettle(i, ok, apps) /\ SessionSettle("appsSettled", ok)

CaptureLayout == Len(calls) < MaxCalls /\ CaptureLayoutCall /\ SessionStep("capture")

CaptureLayoutSettled(i, ok, layout) ==
    CaptureLayoutSettle(i, ok, layout) /\ SessionSettle("captureSettled", ok)

RefreshMonitors == Len(calls) < MaxCalls /\ RefreshMonitorsCall /\ SessionStep("monitors")

RefreshMonitorsSettled(i, ok, mons) ==
    RefreshMonitorsSettle(i, ok, mons) /\ SessionSettle("monitorsSettled", ok)

RefreshWindows == Len(calls) < MaxCalls /\ RefreshWindowsCall /\ SessionStep("windows")

RefreshWindowsSettled(i, ok, wins) ==
    RefreshWindowsSettle(i, ok, wins) /\ SessionSettle("windowsSettled", ok)

RefreshRunningApps ==
    Len(calls) < MaxCalls /\ RefreshRunningAppsCall /\ SessionStep("runningApps")

RefreshRunningAppsSettled(i, ok, apps) ==
    RefreshRunningAppsSettle(i, ok, apps) /\ SessionSettle("runningAppsSettled", ok)

RefreshInstalledApps ==
    Len(calls) < MaxCalls /\ RefreshInstalledAppsCall /\ SessionStep("installedApps")

RefreshInstalledAppsSettled(i, ok, installed) ==
    RefreshInstalledAppsSettle(i, ok, installed) /\ SessionSettle("installedAppsSettled", ok)

SessionDetected == {<<Display1>>, <<Display1, Display2>>}

NextSession ==
    \/ RefreshAll
    \/ \E i \in 1..Len(calls), ok \in BOOLEAN, mons \in SessionDetected, wins \in WindowLists :
           RefreshAllSettled(i, ok, mons, wins)
    \/ \E i \in 1..Len(calls), ok \in BOOLEAN, apps \in AppLists :
           BackgroundAppsSettled(i, ok, apps)
    \/ CaptureLayout
    \/ \E i \in 1..Len(calls), ok \in BOOLEAN, layout \in CapturedLayouts(now) :
           CaptureLayoutSettled(i, ok, layout)
    \/ RefreshMonitors
    \/ \E i \in 1..Len(calls), ok \in BOOLEAN, mons \in SessionDetected :
           RefreshMonitorsSettled(i, ok, mons)
    \/ RefreshWindows
    \/ \E i \in 1..Len(calls), ok \in BOOLEAN, wins \in WindowLists :
           RefreshWindowsSettled(i, ok, wins)
    \/ RefreshRunningApps
    \/ \E i \in 1..Len(calls), ok \in BOOLEAN, apps \in AppLists :
           RefreshRunningAppsSettled(i, ok, apps)
    \/ RefreshInstalledApps
    \/ \E i \in 1..Len(calls), ok \in BOOLEAN, installed \in InstalledLists :
           RefreshInstalledAppsSettled(i, ok, installed)

SpecSession == Init /\ [][NextSession]_vars

(***************************************************************************)
(* Adding and removing monitors on an arrangement that extends to the left *)
(* of the primary display.                                                 *)
(***************************************************************************)
DisplayFarLeft == [displayId |-> 4, x |-> -3840, y |-> 0, width |-> 1920, height |-> 1080,
                   isPrimary |-> FALSE]

LeftDetected == {<<DisplayFarLeft, Display0, Display1>>, <<Display0, Display1>>}

NextAdd ==
    \/ \E i \in 1..Len(calls), ok \in BOOLEAN, mons \in LeftDetected :
           EditorRefreshAllSettle(i, ok, mons, <<"w1">>)
    \/ \E t \in 1..MaxNow : HandleAddMonitor(t)
    \/ \E id \in IdsOf(monitors) : HandleDeleteMonitor(id)

SpecAdd == Init /\ [][NextAdd]_vars

(***************************************************************************)
(* Manual zoom up to its limits: enough presses of the zoom buttons to     *)
(* reach both ends of their range from a fitted scale.                     *)
(***************************************************************************)
ZoomInRepeated == edits < MaxZooms /\ edits' = edits + 1 /\ ZoomInPress

ZoomOutRepeated == edits < MaxZooms /\ edits' = edits + 1 /\ ZoomOutPress

NextZoom ==
    \/ \E i \in 1..Len(calls), ok \in BOOLEAN, mons \in CanvasDetected :
           EditorRefreshAllSettle(i, ok, mons, <<"w1">>)
    \/ ZoomInRepeated
    \/ ZoomOutRepeated
    \/ FitToCanvas
    \/ AnimationFrame
    \/ \E size \in LayoutSizes, windowEvent \in BOOLEAN : CanvasResize(size, windowEvent)

SpecZoom == CanvasInit /\ [][NextZoom]_vars

(***************************************************************************)
(* The dirty flag: every edit of the monitor set, with the load of the     *)
(* profile and save.                                                       *)
(***************************************************************************)
\* The pointer positions of the drag: down on the second monitor, moved up
\* and to the left.
DragFrom == <<600, 200>>
DragTo == <<520, 110>>

NextDirty ==
    \/ \E i \in 1..Len(loads), ok \in BOOLEAN, data \in StoredLists : LoadSettle(i, ok, data)
    \/ \E i \in 1..Len(calls), ok \in BOOLEAN, mons \in EditorDetected :
           EditorRefreshAllSettle(i, ok, mons, <<"w1">>)
    \/ \E preset \in Presets : edits < MaxDirtyEdits /\ ApplyPresetLayout(preset)
    \/ \E t \in 1..MaxNow : edits < MaxDirtyEdits /\ HandleAddMonitor(t)
    \/ \E id \in IdsOf(monitors) : edits < MaxDirtyEdits /\ HandleDeleteMonitor(id)
    \/ \E id \in IdsOf(monitors) :
           HandleMonitorMouseDown(id, DragFrom[1], DragFrom[2])
    \/ HandleMouseMove(DragTo[1], DragTo[2])
    \/ HandleMouseUp
    \/ HandleSaveLayout
    \/ \E j \in 1..Len(jobs), ok \in BOOLEAN : SaveOperationDone(j, ok)

SpecDirty == Init /\ [][NextDirty]_vars

(***************************************************************************)
(* Capture on top of the backend's monitor detection.  detect_monitors is  *)
(* not among the repository's files; it is modelled from its description   *)
(* in docs/backend/handlers/system.md: the displays in the order the OS    *)
(* enumerates them, sorted by position left-to-right, top-to-bottom.       *)
(***************************************************************************)
DisplayRight == [displayId |-> 2, x |-> 2560, y |-> 0, width |-> 1440, height |-> 900,
                 isPrimary |-> FALSE]

\* Display a is before display b left-to-right, top-to-bottom.
OriginBefore(a, b) == a.x < b.x \/ (a.x = b.x /\ a.y <= b.y)

\* The list in the enumeration order, as an unsorted detection would leave it.
DetectMonitorsUnsorted(raw) == raw

RECURSIVE InsertByOrigin(_, _)
InsertByOrigin(sorted, d) ==
    IF sorted = <<>> THEN <<d>>
    ELSE IF OriginBefore(d, Head(sorted)) THEN <<d>> \o sorted
    ELSE <<Head(sorted)>> \o InsertByOrigin(Tail(sorted), d)

RECURSIVE SortByOrigin(_)
SortByOrigin(raw) ==
    IF raw = <<>> THEN <<>>
    ELSE InsertByOrigin(SortByOrigin(SubSeq(raw, 1, Len(raw) - 1)), raw[Len(raw)])

DetectMonitors(raw) == SortByOrigin(raw)

\* What CGDisplay::active_displays can enumerate, in its order.
RawDisplayLists ==
    {<<Display1>>, <<Display1, DisplayRight>>, <<DisplayRight, Display1>>,
     <<Display1, DisplayUp, Display0>>, <<Display2, Display0, Display1>>}

\* The layouts capture_current_layout can return at instant t.
DetectedLayouts(t) ==
    {[capturedAt |-> t, monitors |-> DetectMonitors(raw), windows |-> w,
      runningApps |-> a] : raw \in RawDisplayLists, w \in WindowLists, a \in AppLists}

NextCapture ==
    \/ RefreshAll
    \/ \E i \in 1..Len(calls), ok \in BOOLEAN, raw \in RawDisplayLists, wins \in WindowLists :
           RefreshAllSettled(i, ok, DetectMonitors(raw), wins)
    \/ \E i \in 1..Len(calls), ok \in BOOLEAN, apps \in AppLists :
           BackgroundAppsSettled(i, ok, apps)
    \/ CaptureLayout
    \/ \E i \in 1..Len(calls), ok \in BOOLEAN, layout \in DetectedLayouts(now) :
           CaptureLayoutSettled(i, ok, layout)

SpecCapture == Init /\ [][NextCapture]_vars

(***************************************************************************)
(* Switching between two profiles while loads are outstanding: each load   *)
(* resolves with the monitors stored for the profile it was issued for.    *)
(***************************************************************************)
MaxSwitchLoads == 2

StoredB == [id |-> "m-c", x |-> 0, y |-> 0, width |-> 1920, height |-> 1080,
            isPrimary |-> TRUE]

\* The records get_monitors returns for the profile.
StoredOf(profile) == IF profile = "A" THEN <<Stored1, Stored2>> ELSE <<StoredB>>

\* The selector's choices: no profile, A or B.
SwitchChoices == {None, Some("A"), Some("B")}

NextSwitch ==
    \/ \E profile \in SwitchChoices :
           Len(loads) < MaxSwitchLoads /\ SelectProfileChange(profile)
    \/ \E i \in 1..Len(loads), ok \in BOOLEAN :
           \E data \in {<<>>, StoredOf(loads[i].profile)} : LoadSettle(i, ok, data)
    \/ \E i \in 1..Len(calls), ok \in BOOLEAN, mons \in EditorDetected :
           EditorRefreshAllSettle(i, ok, mons, <<"w1">>)
    \/ \E id \in IdsOf(monitors) : edits < MaxDirtyEdits /\ HandleDeleteMonitor(id)

SwitchInit == Constructed(Some("A"), TRUE, EditorCanvas)

SpecSwitch == SwitchInit /\ [][NextSwitch]_vars

(***************************************************************************)
(* The persistence collaborator as monitorApi reaches it: create_monitor   *)
(* is invoked without an id and answers with the record it made (whose id  *)
(* handleSaveLayout does not read), delete_monitor removes the record of   *)
(* the id, update_monitor leaves the set of records as it is.              *)
(***************************************************************************)
\* The ids the collaborator can give a new record: its own, or by
\* coincidence the string of a display id.
RecordIds == {"r-1", "1"}

\* The ids of the records after the operations ops on the records ids, when
\* the k-th operation's new record gets the id rid[k].
RECURSIVE RecordsAfter(_, _, _)
RecordsAfter(ids, ops, rid) ==
    IF ops = <<>> THEN ids
    ELSE LET prev == RecordsAfter(ids, SubSeq(ops, 1, Len(ops) - 1), rid)
             last == ops[Len(ops)]
         IN  IF last.op = "create" THEN prev \cup {rid[Len(ops)]}
             ELSE IF last.op = "delete" THEN prev \ {last.id}
             ELSE prev

(***************************************************************************)
(* Properties.                                                             *)
(***************************************************************************)
\* The ids of the operations of one kind among ops, and their number.
OpIds(ops, kind) == {ops[i].id : i \in {k \in 1..Len(ops) : ops[k].op = kind}}
OpCount(ops, kind) == Cardinality({k \in 1..Len(ops) : ops[k].op = kind})

\* The last step ended a save (or an apply), and what the history holds of it.
SaveEnds == act.name = "saveEnd"
SaveSucceeds == SaveEnds /\ Val(act.info).outcome = "success"
SaveFails == SaveEnds /\ Val(act.info).outcome = "failed"
ApplyEnds == act.name = "applyEnd"

\* The save ran on 3 editable monitors against 2 persisted ones, one id shared.
ThreeAgainstTwo(info) ==
    /\ Len(info.N) = 3 /\ Cardinality(IdsOf(info.N)) = 3
    /\ Len(info.O) = 2 /\ Cardinality(IdsOf(info.O)) = 2
    /\ Cardinality(IdsOf(info.N) \cap IdsOf(info.O)) = 1

Reconciles(info) ==
    /\ OpIds(info.issued, "create") = IdsOf(info.N) \ IdsOf(info.O)
    /\ OpIds(info.issued, "delete") = IdsOf(info.O) \ IdsOf(info.N)
    /\ OpIds(info.issued, "update") = IdsOf(info.N) \cap IdsOf(info.O)
    /\ OpIds(info.issued, "create") \cap OpIds(info.issued, "delete") = {}
    /\ OpIds(info.issued, "create") \cap OpIds(info.issued, "update") = {}
    /\ OpIds(info.issued, "delete") \cap OpIds(info.issued, "update") = {}
    /\ OpCount(info.issued, "create") + OpCount(info.issued, "update") = Len(info.N)

\* C1 (amended): a save whose operations all succeed has issued creates for
\* exactly the ids in N but not in O, deletes for exactly the ids in O but not
\* in N and updates for exactly the ids in both, no id in two of the lists,
\* one create or update per editable monitor; so 3 editable monitors against
\* 2 persisted ones with one shared id give 1 update, 1 delete and 2 creates.
C1_SaveReconciles ==
    SaveSucceeds =>
        /\ Reconciles(Val(act.info))
        /\ ThreeAgainstTwo(Val(act.info)) =>
               /\ OpCount(Val(act.info).issued, "update") = 1
               /\ OpCount(Val(act.info).issued, "delete") = 1
               /\ OpCount(Val(act.info).issued, "create") = 2

\* C1, witness: a save of 3 editable monitors against 2 persisted ones with
\* one shared id has succeeded.
C1_Witness == SaveSucceeds /\ ThreeAgainstTwo(Val(act.info))

\* C1 as stated: the set law, and 3 against 2 with one shared id gives
\* exactly 1 update, 1 delete and 1 create.
C1_AsStated ==
    SaveSucceeds =>
        /\ Reconciles(Val(act.info))
        /\ ThreeAgainstTwo(Val(act.info)) =>
               /\ OpCount(Val(act.info).issued, "update") = 1
               /\ OpCount(Val(act.info).issued, "delete") = 1
               /\ OpCount(Val(act.info).issued, "create") = 1

\* C2 as stated: while a monitor is being dragged, the scale and the offsets
\* the canvas draws with are the ones locked at the pointer-down.
C2_TransformLocked ==
    IsSome(draggingMonitor) =>
        /\ ActiveScale = Val(snap).scale
        /\ RenderOffsets = Val(snap).offsets

\* Two numbers closer than 2^-20.
Near(a, b) == FLt(FSub(a, b), Lit(1, 2^20)) /\ FLt(FSub(b, a), Lit(1, 2^20))

\* C3 (amended): within one drag the origin a move gives the dragged monitor
\* depends only on the pointer position (two moves to one position give one
\* origin, whatever moves came between), and a move back to the pointer-down
\* position gives the origin the monitor had at the pointer-down up to
\* floating-point rounding.
C3_OriginFromPointer ==
    IsSome(draggingMonitor) =>
        /\ \A a, b \in Val(snap).trail : a.at = b.at => a.origin = b.origin
        /\ \A a \in Val(snap).trail :
               a.at = Val(snap).down =>
                   /\ Near(a.origin.x, Val(snap).origin.x)
                   /\ Near(a.origin.y, Val(snap).origin.y)

\* C3, witness: the pointer was moved away from the pointer-down position
\* and is back on it.
C3_Witness ==
    /\ IsSome(draggingMonitor)
    /\ Val(snap).last = Val(snap).down
    /\ \E a \in Val(snap).trail : a.at # Val(snap).down

\* C3 as stated: a move back to the pointer-down position restores the
\* origin the monitor had there exactly.
C3_ExactReturn ==
    IsSome(draggingMonitor) =>
        \A a \in Val(snap).trail : a.at = Val(snap).down => a.origin = Val(snap).origin

\* C4 as stated: a session never has two captureLayout calls outstanding (a
\* second call made while one is outstanding is queued or rejected).
C4_OneCaptureOutstanding ==
    Cardinality({i \in 1..Len(calls) : calls[i] = "capture"}) <= 1

\* C5: when the apply call answers PERMISSION_REQUIRED, the handler ends with
\* permissionNeeded set and signals neither success nor failure nor a
\* manual command.
C5_PermissionOutcome ==
    (ApplyEnds /\ Val(act.info).reply = PermissionReply) =>
        /\ permissionNeeded
        /\ Val(act.info).permission
        /\ ~Val(act.info).success
        /\ ~Val(act.info).failure
        /\ Val(act.info).manual = None

\* C5, witness: an apply has ended on the PERMISSION_REQUIRED answer.
C5_Witness == ApplyEnds /\ Val(act.info).reply = PermissionReply

\* The applies and saves in flight.
WorkInFlight == SelectSeq(jobs, LAMBDA job : job.kind \in {"apply", "save"})

\* C6: at most one apply or save of the editor is in flight, and the busy
\* flag is set while it is.
C6_OneJobInFlight == Len(WorkInFlight) <= 1 /\ (WorkInFlight # <<>> => isSaving)

\* C6, witness: an apply is in flight while the editor has unsaved changes of
\* a selected profile, so that only the busy flag keeps Save from starting.
C6_Witness ==
    /\ Len(WorkInFlight) = 1 /\ WorkInFlight[1].kind = "apply"
    /\ SaveRendered /\ hasUnsavedChanges /\ isSaving

\* C7 as stated: while a drag is in progress or the manual-zoom flag is set,
\* and stays so, a step changes the display scale only if it is a zoom or an
\* explicit fit-to-canvas (the press or its animation frame).
C7_FitSuspended ==
    [][((IsSome(draggingMonitor) \/ manualZoom)
            /\ (IsSome(draggingMonitor') \/ manualZoom')
            /\ displayScale' # displayScale)
           => act'.name \in {"zoomIn", "zoomOut", "fit", "fitFrame"}]_vars

\* The fit of the monitors on the canvas is not raised by the minimum scale.
FitNotFloored == FLe(ScaleFloor, FitUnclamped(monitors, clientSize))

\* C8 (amended): for a non-empty monitor set on a mounted canvas, when the
\* fit is not raised to the minimum scale 0.05, the scaled bounding box is,
\* to the pixel, within the canvas less the 32px margin.
C8_FitWithinMargin ==
    (Mounted /\ monitors # <<>> /\ FitNotFloored) =>
        /\ MathRound(FMul(CalculateDisplayScale(monitors, Mounted, clientSize),
                          TotalWidth(monitors))) <= clientSize.width - CanvasPadding
        /\ MathRound(FMul(CalculateDisplayScale(monitors, Mounted, clientSize),
                          TotalHeight(monitors))) <= clientSize.height - CanvasPadding

\* C8, witness: after a resize of the canvas the display scale is the fit of
\* three monitors, below the cap and not raised by the minimum.
C8_Witness ==
    /\ act.name = "resize"
    /\ Mounted /\ Len(monitors) = 3 /\ FitNotFloored
    /\ FLt(FitUnclamped(monitors, clientSize), ScaleCap)
    /\ displayScale = CalculateDisplayScale(monitors, Mounted, clientSize)

\* C8 as stated, the margin granted whole: for every non-empty monitor set on
\* a mounted canvas the scaled bounding box is within the canvas.
C8_FitWithinCanvas ==
    (Mounted /\ monitors # <<>>) =>
        /\ FLe(FMul(CalculateDisplayScale(monitors, Mounted, clientSize),
                    TotalWidth(monitors)), FromInt(clientSize.width))
        /\ FLe(FMul(CalculateDisplayScale(monitors, Mounted, clientSize),
                    TotalHeight(monitors)), FromInt(clientSize.height))

\* The monitors new are the monitors old in a row: same order, y = 0, x
\* strictly increasing, Spacing between a right edge and the next origin.
InRow(old, new) ==
    /\ Len(new) = Len(old)
    /\ \A i \in 1..Len(new) :
           /\ new[i].id = old[i].id
           /\ new[i].width = old[i].width /\ new[i].height = old[i].height
           /\ new[i].y = FZero
    /\ \A i \in 1..(Len(new) - 1) :
           /\ FLt(new[i].x, new[i + 1].x)
           /\ FSub(new[i + 1].x, FAdd(new[i].x, FromInt(new[i].width))) = FromInt(Spacing)

\* C9: the dual-side preset leaves the monitors in their order, every y at
\* 0, the x-origins strictly increasing, and 50 between each right edge and
\* the next x-origin.
C9_SideBySide == [][act'.name = "dual-side" => InRow(monitors, monitors')]_vars

\* C9, witness: the dual-side preset was applied to three monitors.
C9_Witness == act.name = "dual-side" /\ Len(monitors) = 3

\* C10 as stated: the report of a failed save names the monitor and the kind
\* of the operation that failed.
C10_FailureIdentified ==
    SaveFails =>
        /\ Val(Val(act.info).report).monitor = Some(Val(Val(act.info).failed).id)
        /\ Val(Val(act.info).report).operation = Some(Val(Val(act.info).failed).op)

\* C11: when every operation of a save has succeeded, the persisted baseline
\* profileMonitors equals the editable set the save ran on and the dirty
\* flag is cleared.
C11_BaselineReplaced ==
    SaveSucceeds =>
        /\ profileMonitors = Val(act.info).N
        /\ ~hasUnsavedChanges

\* C11, witness: a save that issued operations on a set other than the
\* baseline has succeeded.
C11_Witness ==
    /\ SaveSucceeds
    /\ Val(act.info).issued # <<>>
    /\ Val(act.info).N # Val(act.info).O

\* C12: a step of refreshMonitors, refreshWindows or refreshRunningApps (the
\* call or its settling) leaves the descriptor lists of the other two kinds,
\* the busy flag and the last-capture timestamp as they were.
C12_OwnKindOnly ==
    [][/\ act'.name \in {"monitors", "monitorsSettled"} =>
              UNCHANGED <<sWindows, sApps, sInstalled, sIsLoading, sLastCapturedAt>>
       /\ act'.name \in {"windows", "windowsSettled"} =>
              UNCHANGED <<sMonitors, sApps, sInstalled, sIsLoading, sLastCapturedAt>>
       /\ act'.name \in {"runningApps", "runningAppsSettled"} =>
              UNCHANGED <<sMonitors, sWindows, sIsLoading, sLastCapturedAt>>]_vars

\* C12, witness: a refreshMonitors has replaced the monitors while a
\* refreshAll keeps the session busy and windows are held.
C12_Witness ==
    /\ act.name = "monitorsSettled"
    /\ sError = None /\ sMonitors = <<Display1>>
    /\ sIsLoading /\ sWindows # <<>>

\* The background fetch of the running apps of a refreshAll is outstanding.
AppsFetchOutstanding == \E i \in 1..Len(calls) : calls[i] = "runningAppsOfAll"

\* C13: when the monitors and windows of a refreshAll have arrived they are
\* in the session state and the busy flag is cleared while the fetch of the
\* running apps is still outstanding; the settling of that fetch, failed or
\* not, leaves monitors, windows, the busy flag, the error and the
\* timestamp as they were.
C13_AppsGateOnlyApps ==
    [][/\ (act'.name = "allSettled" /\ sError' = None) =>
              /\ ~sIsLoading'
              /\ AppsFetchOutstanding'
              /\ sApps' = sApps
       /\ act'.name = "appsSettled" =>
              UNCHANGED <<sMonitors, sWindows, sIsLoading, sError, sLastCapturedAt>>]_vars

\* C13, witness: the fetch of the running apps has failed after the monitors
\* and windows of its refreshAll were written.
C13_Witness ==
    /\ act.name = "appsSettled" /\ act.info = Some(FALSE)
    /\ sMonitors # <<>> /\ sWindows # <<>>
    /\ sError = None /\ ~sIsLoading

\* C14 as stated: the session's lastCapturedAt changes only in a step of
\* captureLayout (it is the timestamp of the last successful capture).
C14_CaptureTimestamp ==
    [][sLastCapturedAt' # sLastCapturedAt =>
           act'.name \in {"capture", "captureSettled"}]_vars

\* The last step was the failure of a request of one of the kinds named.
SettleFailed(names) == act.name \in names /\ act.info = Some(FALSE)

\* C15 (amended): a failure of captureLayout or of the monitors-and-windows
\* fetch of refreshAll sets the session error and clears the busy flag; a
\* failure of refreshMonitors, refreshWindows or refreshRunningApps sets the
\* session error and leaves the busy flag as it was; a failure of the
\* background running-apps fetch of refreshAll leaves the error and the busy
\* flag as they were; every one of them leaves the three descriptor lists
\* and lastCapturedAt as they were.
C15_FailureAbsorbed ==
    [][/\ SettleFailed({"captureSettled", "allSettled"})' =>
              /\ IsSome(sError') /\ ~sIsLoading'
              /\ UNCHANGED <<sMonitors, sWindows, sApps, sInstalled, sLastCapturedAt>>
       /\ SettleFailed({"monitorsSettled", "windowsSettled", "runningAppsSettled"})' =>
              /\ IsSome(sError')
              /\ UNCHANGED <<sMonitors, sWindows, sApps, sInstalled, sLastCapturedAt, sIsLoading>>
       /\ SettleFailed({"appsSettled"})' =>
              UNCHANGED <<sMonitors, sWindows, sApps, sInstalled, sLastCapturedAt, sIsLoading,
                          sError>>]_vars

\* C15, witness: a captureLayout has failed in a session holding monitors
\* and a timestamp.
C15_Witness ==
    /\ SettleFailed({"captureSettled"})
    /\ sMonitors # <<>> /\ IsSome(sLastCapturedAt)
    /\ IsSome(sError) /\ ~sIsLoading

\* C15 as stated: every failure of a captureLayout or refresh request sets
\* the session error, clears the busy flag and leaves the three descriptor
\* lists and lastCapturedAt as they were.
C15_AsStated ==
    [][SettleFailed({"captureSettled", "allSettled", "appsSettled", "monitorsSettled",
                     "windowsSettled", "runningAppsSettled"})' =>
           /\ IsSome(sError') /\ ~sIsLoading'
           /\ UNCHANGED <<sMonitors, sWindows, sApps, sInstalled, sLastCapturedAt>>]_vars

\* The number of monitors the triple preset keeps of n.
KeptOf(n) == IF n < 3 THEN n ELSE 3

\* C16 as stated: after the triple preset the editable set holds exactly
\* three monitors, the first min(N, 3) of the N it had, in their order, and
\* a 1920x1080 non-primary monitor in every slot after them.
C16_TripleHoldsThree ==
    [][act'.name = "triple" =>
           /\ Len(monitors') = 3
           /\ \A i \in 1..KeptOf(Len(monitors)) : monitors'[i].id = monitors[i].id
           /\ \A i \in (KeptOf(Len(monitors)) + 1)..3 :
                  /\ monitors'[i].width = NewWidth
                  /\ monitors'[i].height = NewHeight
                  /\ ~monitors'[i].isPrimary]_vars

\* The right edges of the monitors, in their order.
RightEdges(mons) == [i \in 1..Len(mons) |-> FAdd(mons[i].x, FromInt(mons[i].width))]

\* C17 as stated: handleAddMonitor appends one monitor, leaves the monitors
\* it found unchanged, and places the new one at the largest right edge
\* (x + width) of the monitors it found plus the spacing.
C17_AddRightOfAll ==
    [][act'.name = "add" =>
           /\ Len(monitors') = Len(monitors) + 1
           /\ \A i \in 1..Len(monitors) : monitors'[i] = monitors[i]
           /\ monitors # <<>> =>
                  monitors'[Len(monitors')].x
                      = FAdd(FMaxOf(RightEdges(monitors)), FromInt(Spacing))]_vars

\* C18 as stated: no two monitors of the editable set have the same id.
C18_UniqueIds == Cardinality(IdsOf(monitors)) = Len(monitors)

\* The command line the display-configuration collaborator hands over in
\* ManualReply and in ManualError.
CommandLine == <<"displayplacer id:1">>

\* C19 as stated: when an apply ends in the manual-command outcome,
\* manualCommand is the command line alone, without prefix or message text.
C19_ManualVerbatim ==
    (ApplyEnds /\ IsSome(Val(act.info).manual)) => manualCommand = Some(CommandLine)

\* The scale is within the band from lo to hi.
InBand(scale, lo, hi) == FLe(lo, scale) /\ FLe(scale, hi)

\* C20 (amended): the display scale is always within the band 0.04 to 0.6 of
\* the zoom buttons, and within the band 0.05 to 0.28 of the fit as long as
\* the manual-zoom flag is not set.
C20_ScaleInBands ==
    /\ InBand(displayScale, ZoomMin, ZoomMax)
    /\ ~manualZoom => InBand(displayScale, ScaleFloor, ScaleCap)

\* C20, witness: zoom-in presses have brought the scale to the upper limit
\* of the zoom buttons.
C20_Witness == act.name = "zoomIn" /\ manualZoom /\ displayScale = ZoomMax

\* C20 as stated: the display scale is always within the band 0.05 to 0.28
\* the fit is clamped to.
C20_SingleBand == InBand(displayScale, ScaleFloor, ScaleCap)

\* The user's edit operations, as the history names them.
EditNames == Presets \cup {"add", "delete", "mouseMove"}

\* C21: a drag, preset, add or remove step leaves the dirty flag set, and the
\* flag goes from set to clear only in the step that ends a save with success
\* or in the step that completes the load of a profile's persisted monitors.
C21_DirtyUntilSavedOrLoaded ==
    [][/\ act'.name \in EditNames => hasUnsavedChanges'
       /\ (hasUnsavedChanges /\ ~hasUnsavedChanges') =>
              \/ SaveSucceeds'
              \/ act'.name = "loaded"]_vars

\* C21, witness: a save has succeeded and cleared the flag that a preset on
\* three monitors had set.
C21_Witness ==
    /\ SaveSucceeds /\ ~hasUnsavedChanges
    /\ Len(Val(act.info).N) = 3 /\ Val(act.info).N[3].id = "3"

\* The displays of the list are in ascending order of (x, y).
SortedByOrigin(mons) ==
    \A i \in 1..(Len(mons) - 1) : OriginBefore(mons[i], mons[i + 1])

\* C22: the monitor list of the session is sorted ascending by (x, y), and
\* after a successful capture of the displays at (0,0) 2560x1440 (the main
\* display) and (2560,0) 1440x900 it holds exactly these two in that order,
\* the first flagged primary.
C22_CaptureSorted ==
    /\ SortedByOrigin(sMonitors)
    /\ (/\ act.name = "captureSettled" /\ act.info = Some(TRUE)
        /\ SeqToSet(sMonitors) = {Display1, DisplayRight}) =>
           /\ sMonitors = <<Display1, DisplayRight>>
           /\ sMonitors[1].isPrimary

\* C22, witness: a capture of the two displays has succeeded.
C22_Witness ==
    /\ act.name = "captureSettled" /\ act.info = Some(TRUE)
    /\ SeqToSet(sMonitors) = {Display1, DisplayRight}

\* The id, position and size of every monitor of the list.
Geometry(mons) ==
    {[id |-> mons[i].id, x |-> mons[i].x, y |-> mons[i].y, width |-> mons[i].width,
      height |-> mons[i].height] : i \in 1..Len(mons)}

\* C23: with a profile selected in the app, no save in flight and the dirty
\* flag clear, the editable set equals the persisted baseline in every
\* monitor's id, position and size.
C23_CleanMeansSaved ==
    (/\ IsSome(selectedProfile) /\ tauri
     /\ jobs = <<>> /\ ~isSaving /\ ~hasUnsavedChanges) =>
        Geometry(monitors) = Geometry(profileMonitors)

\* C24: once every load has completed, the persisted baseline, when it holds
\* records, and the editable set hold the monitors of the currently selected
\* profile.
C24_LoadedIsSelected ==
    (/\ act.name = "loaded" /\ loads = <<>>
     /\ IsSome(selectedProfile) /\ profileMonitors # <<>>) =>
        /\ profileMonitors = MapStored(StoredOf(Val(selectedProfile)))
        /\ monitors = profileMonitors

\* The settlements of the hook's operations, as the session records them.
SettleNames ==
    {"allSettled", "appsSettled", "captureSettled", "monitorsSettled", "windowsSettled",
     "runningAppsSettled", "installedAppsSettled"}

\* C25: from a successful capture on, as long as only results of operations
\* invoked before arrive, the session's monitors, windows and runningApps stay
\* the lists of the captured layout; the running applications of an earlier
\* refreshAll do not overwrite them.
C25_CaptureKept ==
    [][(/\ act.name = "captureSettled" /\ act.info = Some(TRUE)
        /\ act'.name \in SettleNames) =>
           /\ sMonitors' = sMonitors
           /\ sWindows' = sWindows
           /\ sApps' = sApps]_vars

\* A capture, or the monitors-and-windows phase of a refreshAll, is outstanding.
LoadingOutstanding == \E i \in 1..Len(calls) : calls[i] \in {"capture", "refreshAll"}

\* C26: isLoading is set whenever a captureLayout() or the monitors-and-windows
\* phase of a refreshAll() is outstanding.
C26_BusyWhileOutstanding == LoadingOutstanding => sIsLoading

\* C27: lockedScale is set exactly when draggingMonitor is set and exactly
\* when lockedOffsets is set.
C27_LockAgreesWithDrag ==
    /\ IsSome(lockedScale) <=> IsSome(draggingMonitor)
    /\ IsSome(lockedScale) <=> IsSome(lockedOffsets)

\* The operations of the save that ended, up to and including the last issued.
IssuedPrefix(e) == SubSeq(SavePlan(e.N, e.O), 1, Len(e.issued))

\* C28: the step in which an operation of a save fails leaves the persisted
\* baseline, the editable set and the dirty flag as they were, ends the save
\* with the failing operation as the last one issued, and clears isSaving.
C28_FailureLeavesState ==
    [][SaveFails' =>
          /\ profileMonitors' = profileMonitors
          /\ monitors' = monitors
          /\ hasUnsavedChanges' = hasUnsavedChanges
          /\ ~isSaving'
          /\ Val(act'.info).issued = IssuedPrefix(Val(act'.info))
          /\ Val(act'.info).issued[Len(Val(act'.info).issued)] = Val(Val(act'.info).failed)
          /\ \A j \in 1..Len(jobs') : jobs'[j].kind # "save"]_vars

\* C28, witness: a save has failed before its last operation, and the set is
\* still dirty and no longer busy.
C28_Witness ==
    /\ SaveFails /\ hasUnsavedChanges /\ ~isSaving
    /\ Len(Val(act.info).issued) < Len(SavePlan(Val(act.info).N, Val(act.info).O))
    /\ Len(Val(act.info).issued) > 1

\* C29: after a save has fully succeeded on a baseline of existing records,
\* every id of the new baseline is the id of a record of the collaborator,
\* whatever ids it gave the records the save created.
C29_BaselineIdsExist ==
    SaveSucceeds =>
        \A rid \in [1..Len(Val(act.info).issued) -> RecordIds] :
            IdsOf(profileMonitors) \subseteq
                RecordsAfter(IdsOf(Val(act.info).O), Val(act.info).issued, rid)

\* C30: while the dirty flag is set, only the user's edit operations change
\* the editable monitor set.
C30_DirtySetKept ==
    [][(hasUnsavedChanges /\ monitors' # monitors) => act'.name \in EditNames]_vars

====
